---- MODULE Spec2Model ----
(***************************************************************************)
(* GapSign: air-gapped signing with a Keycard.                             *)
(*                                                                         *)
(* Part I   - the card session state machine of the useKeycardOperation    *)
(*            hook (src/src/hooks/useKeycardOperation.ts): the five API    *)
(*            calls, the four hardware events, and the asynchronous        *)
(*            card-connected handler, one action per await point.          *)
(* Part II  - the signature assembler (src/src/utils/ethSignature.ts).     *)
(***************************************************************************)
EXTENDS Integers, Sequences, FiniteSets, TLC

VARIABLES
    phase,                \* useState<Phase>            (hook line 45)
    status,               \* useState('')               (hook line 46)
    result,               \* useState<T | null>         (hook line 47)
    cmdSetRef,            \* useRef<Commandset | null>  (hook line 49)
    pinRef,               \* useRef('')                 (hook line 50)
    operationRef,         \* useRef<KeycardOperationFn> (hook line 51)
    requiresPinRef,       \* useRef(true)               (hook line 52)
    operationRunningRef,  \* useRef(false)              (hook line 53)
    listening,            \* RNKeycard.Core listens for a card (startNFC .. stopNFC)
    startPending,         \* outcomes of the startNFC promises not yet settled
    stored,               \* keys of EncryptedStorage that hold a pairing
    taps,                 \* card-connected events delivered so far
    hpc,                  \* per connected handler: the await it is suspended at
    cmdSets,              \* per connected handler: its local Commandset object
    sentPin,              \* per connected handler: the PIN of its pending verifyPIN
    opArg,                \* per connected handler: closure and channel of its invocation
    apiDuringOp,          \* history: execute/cancel/reset ran while a closure was in flight
    event                 \* history: the API call or hardware event of the last step
                          \* ('response' when a promise settled)

sessionVars == <<phase, status, result, cmdSetRef, pinRef, operationRef,
                 requiresPinRef, operationRunningRef, listening, startPending,
                 stored, taps, hpc, cmdSets, sentPin, opArg, apiDuringOp, event>>

(* The state of Part II *)
VARIABLES
    cardSignature,        \* what the card signed and how it framed the response
    curve,                \* what secp.recoverPublicKey yields for recId 0 and 1
    args,                 \* the arguments of buildEthSignatureUR
    urResult,             \* what buildEthSignatureUR returned or threw
    consoleLog,           \* what buildEthSignatureUR wrote with console.log
    scanned,              \* the map the wallet decodes from the UR
    route,                \* the screen the navigation shows, with its params
    consoleError          \* what KeycardScreen wrote with console.error

assemblerVars == <<cardSignature, curve, args, urResult, consoleLog, scanned,
                   route, consoleError>>

(* The state of Part III *)
VARIABLES
    urType,               \* the type argument of handleUR
    cborDecoded,          \* what CBOR.decode does with the cbor argument
    scanResult            \* what handleUR returned or threw

parserVars == <<urType, cborDecoded, scanResult>>

(* The state of Part IV *)
VARIABLES
    scannedRef,           \* useRef(false)                  (QRScannerScreen line 31)
    decoderRef,           \* useRef<URDecoder | null>(null) (line 30)
    progress,             \* useState(0)                    (line 28)
    frameInfo,            \* useState('')                   (line 29)
    navigations,          \* the calls of navigation.navigate
    focused,              \* the scanner is the focused screen
    lastScan              \* history: the last scan event, or the focus effect

scannerVars == <<scannedRef, decoderRef, progress, frameInfo, navigations,
                 focused, lastScan>>

(* The state of Part V *)
VARIABLES
    params,               \* route.params of the mounted screen (KeycardScreen line 30)
    padPin,               \* useState('') `pin`             (line 32)
    hashRef,              \* useRef<Uint8Array | null>(null) (line 33)
    closureHash,          \* `hash` as the closure given to execute holds it (lines 42-49)
    lastKey               \* history: the pad key of the last key press

keycardVars == <<params, padPin, hashRef, closureHash, lastKey>>

(* What the keycard session leaves alone *)
screenVars == <<assemblerVars, parserVars, scannerVars, keycardVars>>

-----------------------------------------------------------------------------
(* Bounds of the session model *)

MaxTaps == 2
MaxStarts == 1

Handlers == 1..MaxTaps

(* undefined, and a value that is present *)
Undefined == <<>>
Defined(x) == <<x>>

(* null of cmdSetRef / operationRef *)
NoChannel == 0
NoOperation == "null"
NoResult == <<>>

Operations == {"sign"}
Pins == {"123456", "000000"}
EmptyPin == ""

Phases == {"idle", "pin_entry", "nfc", "done", "error"}

-----------------------------------------------------------------------------
(* Status strings.  A status is the sequence of the string parts the code  *)
(* concatenates: '' is <<>>, `Error: ${e.message}` is <<"Error: ", msg>>.  *)

StatusEmpty == <<>>
StatusTap == <<"Tap your Keycard">>
StatusSelecting == <<"Selecting applet...">>
StatusPairing == <<"Pairing with card...">>
StatusOpening == <<"Opening secure channel...">>
StatusVerifying == <<"Verifying PIN...">>
StatusProcessing == <<"Processing...">>
StatusRemoved == <<"Card removed - tap again">>
StatusTimedOut == <<"Timed out - tap again">>
StatusError(msg) == <<"Error: ", msg>>
StatusStartFailed(msg) == <<"Failed to start NFC: ", msg>>

(* e.message of what each step throws *)
MsgSelectSW == "SELECT failed: 0x6A82"
MsgNoAppInfo == "No application info in SELECT response"
MsgTransport == "Tag was lost"
MsgPair == "Pairing failed"
MsgSave == "storage failure"
MsgOpen == "Secure channel failed"
MsgWrongPin == "Wrong PIN"
MsgOperation == "Operation failed"
MsgStart == "NFC unavailable"

(* The value a closure resolves to *)
ReturnValue(op) == <<"signRespData", op>>

-----------------------------------------------------------------------------
(* A Commandset object: what the card exchanges made through it achieved *)

FreshCmdSet == [selected |-> FALSE, paired |-> FALSE, secure |-> FALSE, pinOK |-> FALSE]

(* hpc[h] is "new" before the handler's event, then the exchange the       *)
(* handler awaits ("select", "load", "pair", "save", "open", "verify",     *)
(* "op"), and at last how it returned: "done" (the closure resolved),      *)
(* "failed" (a catch block ran) or "skipped" (runOperation returned at its *)
(* guard).                                                                 *)
Awaits == {"select", "load", "pair", "save", "open", "verify", "op"}
Returned == {"done", "failed", "skipped"}

NoArg == <<>>

(* pairingStorage (part_004 lines 173-194): the key an instance UID is     *)
(* stored under, and the UID the card reports in its SELECT response       *)
KEY_PREFIX == "pairing_"
PairingKey(instanceUID) == <<KEY_PREFIX, instanceUID>>
InstanceUID == "a1b2c3"

Null == <<>>
StoredPairing(instanceUID) == <<"pairing", instanceUID>>
Thrown == <<"thrown">>

InFlight == {h \in Handlers : hpc[h] = "op"}

SessionInit ==
    /\ phase = "idle"
    /\ status = StatusEmpty
    /\ result = NoResult
    /\ cmdSetRef = NoChannel
    /\ pinRef = EmptyPin
    /\ operationRef = NoOperation
    /\ requiresPinRef = TRUE
    /\ operationRunningRef = FALSE
    /\ listening = FALSE
    /\ startPending = <<>>
    /\ stored \in {{}, {PairingKey(InstanceUID)}}
    /\ taps = 0
    /\ hpc = [h \in Handlers |-> "new"]
    /\ cmdSets = [h \in Handlers |-> FreshCmdSet]
    /\ sentPin = [h \in Handlers |-> EmptyPin]
    /\ opArg = [h \in Handlers |-> NoArg]
    /\ apiDuringOp = FALSE
    /\ event = [call |-> "mount"]

-----------------------------------------------------------------------------
(* runOperation without the operationRunningRef test of its guard *)
RunOperationNoRunningGuard(h) ==
    IF operationRef = NoOperation \/ cmdSetRef = NoChannel
    THEN /\ hpc' = [hpc EXCEPT ![h] = "skipped"]
         /\ UNCHANGED <<operationRunningRef, status, opArg>>
    ELSE /\ operationRunningRef' = TRUE
         /\ status' = StatusProcessing
         /\ hpc' = [hpc EXCEPT ![h] = "op"]
         /\ opArg' = [opArg EXCEPT ![h] = [op |-> operationRef, chan |-> cmdSetRef]]

(* runOperation (hook lines 55-64), as called by handler h: the guard,     *)
(* then the invocation of the stored closure with the channel cmdSetRef    *)
(* currently holds.                                                        *)
RunOperation(h) ==
    IF operationRunningRef \/ operationRef = NoOperation \/ cmdSetRef = NoChannel
    THEN /\ hpc' = [hpc EXCEPT ![h] = "skipped"]
         /\ UNCHANGED <<operationRunningRef, status, opArg>>
    ELSE /\ operationRunningRef' = TRUE
         /\ status' = StatusProcessing
         /\ hpc' = [hpc EXCEPT ![h] = "op"]
         /\ opArg' = [opArg EXCEPT ![h] = [op |-> operationRef, chan |-> cmdSetRef]]

(* The catch block without `cmdSetRef.current = null` *)
CatchErrorKeepsChannel(h, msg) ==
    /\ status' = StatusError(msg)
    /\ phase' = "error"
    /\ UNCHANGED cmdSetRef
    /\ hpc' = [hpc EXCEPT ![h] = "failed"]

(* The catch block of handleCardConnected (hook lines 137-142) *)
CatchError(h, msg) ==
    /\ status' = StatusError(msg)
    /\ phase' = "error"
    /\ cmdSetRef' = NoChannel
    /\ hpc' = [hpc EXCEPT ![h] = "failed"]

(* Card-connected event, delivered while the hardware listens: the handler *)
(* up to its first await (lines 75-83)                                     *)
Connected ==
    /\ listening
    /\ taps < MaxTaps
    /\ LET h == taps + 1 IN
        /\ taps' = h
        /\ status' = StatusSelecting
        /\ cmdSetRef' = h
        /\ hpc' = [hpc EXCEPT ![h] = "select"]
    /\ UNCHANGED <<phase, result, pinRef, operationRef, requiresPinRef,
                   operationRunningRef, listening, startPending, stored,
                   cmdSets, sentPin, opArg, apiDuringOp>>
    /\ event' = [call |-> "connected"]
    /\ UNCHANGED screenVars

(* select() settling without the status-word test of lines 87-91 *)
SelectResponseNoSWCheck(h, outcome) ==
    /\ hpc[h] = "select"
    /\ CASE outcome = "ok" ->
             /\ cmdSets' = [cmdSets EXCEPT ![h].selected = TRUE]
             /\ hpc' = [hpc EXCEPT ![h] = "load"]
             /\ UNCHANGED <<status, phase, cmdSetRef>>
         [] outcome = "badsw" ->
             /\ hpc' = [hpc EXCEPT ![h] = "load"]
             /\ UNCHANGED <<status, phase, cmdSetRef, cmdSets>>
         [] outcome = "noinfo" -> CatchError(h, MsgNoAppInfo) /\ UNCHANGED cmdSets
         [] outcome = "throw" -> CatchError(h, MsgTransport) /\ UNCHANGED cmdSets
    /\ UNCHANGED <<result, pinRef, operationRef, requiresPinRef,
                   operationRunningRef, listening, startPending, stored, taps,
                   sentPin, opArg, apiDuringOp>>
    /\ event' = [call |-> "response"]
    /\ UNCHANGED screenVars

(* cmdSet.select() settles (lines 83-104) *)
SelectResponse(h, outcome) ==
    /\ hpc[h] = "select"
    /\ CASE outcome = "ok" ->
             /\ cmdSets' = [cmdSets EXCEPT ![h].selected = TRUE]
             /\ hpc' = [hpc EXCEPT ![h] = "load"]
             /\ UNCHANGED <<status, phase, cmdSetRef>>
         [] outcome = "badsw" -> CatchError(h, MsgSelectSW) /\ UNCHANGED cmdSets
         [] outcome = "noinfo" -> CatchError(h, MsgNoAppInfo) /\ UNCHANGED cmdSets
         [] outcome = "throw" -> CatchError(h, MsgTransport) /\ UNCHANGED cmdSets
    /\ UNCHANGED <<result, pinRef, operationRef, requiresPinRef,
                   operationRunningRef, listening, startPending, stored, taps,
                   sentPin, opArg, apiDuringOp>>
    /\ event' = [call |-> "response"]
    /\ UNCHANGED screenVars

(* loadPairing without its try/catch: a storage failure is thrown *)
LoadPairingThrows(instanceUID, outcome) ==
    IF outcome = "throw" THEN Thrown
    ELSE IF PairingKey(instanceUID) \notin stored THEN Null
    ELSE StoredPairing(instanceUID)

(* loadPairing (part_004 lines 175-187): getItem and Pairing.fromString    *)
(* either resolve or throw; the pairing stored under the key, or null      *)
(* when nothing is stored or anything threw                                *)
LoadPairing(instanceUID, outcome) ==
    IF outcome = "throw" THEN Null
    ELSE IF PairingKey(instanceUID) \notin stored THEN Null
    ELSE StoredPairing(instanceUID)

(* loadPairing(uid) settles in the handler (lines 104-114); what it throws *)
(* would reach the handler's catch block                                   *)
LoadResponse(h, outcome) ==
    /\ hpc[h] = "load"
    /\ LET existingPairing == LoadPairing(InstanceUID, outcome) IN
       IF existingPairing = Thrown
       THEN CatchError(h, MsgSave) /\ UNCHANGED cmdSets
       ELSE IF existingPairing # Null
       THEN /\ cmdSets' = [cmdSets EXCEPT ![h].paired = TRUE]
            /\ status' = StatusOpening
            /\ hpc' = [hpc EXCEPT ![h] = "open"]
            /\ UNCHANGED <<phase, cmdSetRef>>
       ELSE /\ status' = StatusPairing
            /\ hpc' = [hpc EXCEPT ![h] = "pair"]
            /\ UNCHANGED <<phase, cmdSetRef, cmdSets>>
    /\ UNCHANGED <<result, pinRef, operationRef, requiresPinRef,
                   operationRunningRef, listening, startPending, stored, taps,
                   sentPin, opArg, apiDuringOp>>
    /\ event' = [call |-> "response", load |-> outcome]
    /\ UNCHANGED screenVars

(* cmdSet.autoPair(PAIRING_PASSWORD) settles (lines 114-119) *)
PairResponse(h, ok) ==
    /\ hpc[h] = "pair"
    /\ IF ok
       THEN /\ cmdSets' = [cmdSets EXCEPT ![h].paired = TRUE]
            /\ hpc' = [hpc EXCEPT ![h] = "save"]
            /\ UNCHANGED <<status, phase, cmdSetRef>>
       ELSE CatchError(h, MsgPair) /\ UNCHANGED cmdSets
    /\ UNCHANGED <<result, pinRef, operationRef, requiresPinRef,
                   operationRunningRef, listening, startPending, stored, taps,
                   sentPin, opArg, apiDuringOp>>
    /\ event' = [call |-> "response"]
    /\ UNCHANGED screenVars

(* savePairing(uid, pairing) settles (lines 119-123; part_004 lines 189-194) *)
SaveResponse(h, ok) ==
    /\ hpc[h] = "save"
    /\ IF ok
       THEN /\ stored' = stored \cup {PairingKey(InstanceUID)}
            /\ status' = StatusOpening
            /\ hpc' = [hpc EXCEPT ![h] = "open"]
            /\ UNCHANGED <<phase, cmdSetRef>>
       ELSE CatchError(h, MsgSave) /\ UNCHANGED stored
    /\ UNCHANGED <<result, pinRef, operationRef, requiresPinRef,
                   operationRunningRef, listening, startPending, taps,
                   cmdSets, sentPin, opArg, apiDuringOp>>
    /\ event' = [call |-> "response"]
    /\ UNCHANGED screenVars

(* cmdSet.autoOpenSecureChannel() settles (lines 123-128, 136) *)
OpenResponse(h, ok) ==
    /\ hpc[h] = "open"
    /\ IF ok
       THEN /\ cmdSets' = [cmdSets EXCEPT ![h].secure = TRUE]
            /\ IF requiresPinRef
               THEN /\ status' = StatusVerifying
                    /\ hpc' = [hpc EXCEPT ![h] = "verify"]
                    /\ sentPin' = [sentPin EXCEPT ![h] = pinRef]
                    /\ UNCHANGED <<operationRunningRef, opArg>>
               ELSE RunOperation(h) /\ UNCHANGED sentPin
            /\ UNCHANGED <<phase, cmdSetRef>>
       ELSE /\ CatchError(h, MsgOpen)
            /\ UNCHANGED <<cmdSets, sentPin, operationRunningRef, opArg>>
    /\ UNCHANGED <<result, pinRef, operationRef, requiresPinRef,
                   listening, startPending, stored, taps, apiDuringOp>>
    /\ event' = [call |-> "response"]
    /\ UNCHANGED screenVars

(* The PIN the card accepts *)
CardPin == "123456"

(* cmdSet.verifyPIN(pinRef.current) settles (lines 128-136): the card      *)
(* accepts the PIN that was sent, rejects it (checkAuthOK throws), or the  *)
(* transport fails                                                         *)
VerifyResponse(h, outcome) ==
    /\ hpc[h] = "verify"
    /\ LET sent == sentPin[h] IN
       CASE outcome = "ok" ->
             /\ sent = CardPin
             /\ cmdSets' = [cmdSets EXCEPT ![h].pinOK = TRUE]
             /\ pinRef' = EmptyPin
             /\ RunOperation(h)
             /\ UNCHANGED <<phase, cmdSetRef>>
         [] outcome = "wrong" ->
             /\ sent # CardPin
             /\ CatchError(h, MsgWrongPin)
             /\ UNCHANGED <<cmdSets, pinRef, operationRunningRef, opArg>>
         [] outcome = "throw" ->
             /\ CatchError(h, MsgTransport)
             /\ UNCHANGED <<cmdSets, pinRef, operationRunningRef, opArg>>
    /\ sentPin' = [sentPin EXCEPT ![h] = EmptyPin]
    /\ UNCHANGED <<result, operationRef, requiresPinRef,
                   listening, startPending, stored, taps, apiDuringOp>>
    /\ event' = [call |-> "response"]
    /\ UNCHANGED screenVars

(* The closure invoked by runOperation settles (lines 62-72) *)
OperationSettles(h, ok) ==
    /\ hpc[h] = "op"
    /\ IF ok
       THEN /\ result' = ReturnValue(opArg[h].op)
            /\ phase' = "done"
            /\ hpc' = [hpc EXCEPT ![h] = "done"]
            /\ UNCHANGED <<status, cmdSetRef>>
       ELSE /\ status' = StatusError(MsgOperation)
            /\ phase' = "error"
            /\ cmdSetRef' = NoChannel
            /\ hpc' = [hpc EXCEPT ![h] = "failed"]
            /\ UNCHANGED result
    /\ operationRunningRef' = FALSE
    /\ opArg' = [opArg EXCEPT ![h] = NoArg]
    /\ apiDuringOp' = (apiDuringOp /\ InFlight \ {h} # {})
    /\ UNCHANGED <<pinRef, operationRef, requiresPinRef, listening, startPending,
                   stored, taps, cmdSets, sentPin>>
    /\ event' = [call |-> "response"]
    /\ UNCHANGED screenVars

(* handleCardDisconnected setting the status in every phase *)
DisconnectedAnyPhase ==
    /\ cmdSetRef' = NoChannel
    /\ status' = StatusRemoved
    /\ UNCHANGED <<phase, result, pinRef, operationRef, requiresPinRef,
                   operationRunningRef, listening, startPending, stored, taps,
                   hpc, cmdSets, sentPin, opArg, apiDuringOp>>
    /\ event' = [call |-> "disconnected"]
    /\ UNCHANGED screenVars

(* handleCardDisconnected (lines 145-156) *)
Disconnected ==
    /\ cmdSetRef' = NoChannel
    /\ status' = IF phase = "nfc" THEN StatusRemoved ELSE status
    /\ UNCHANGED <<phase, result, pinRef, operationRef, requiresPinRef,
                   operationRunningRef, listening, startPending, stored, taps,
                   hpc, cmdSets, sentPin, opArg, apiDuringOp>>
    /\ event' = [call |-> "disconnected"]
    /\ UNCHANGED screenVars

(* onNFCUserCancelled handler returning to idle from every phase *)
UserCancelledAnyPhase ==
    /\ phase' = "idle"
    /\ UNCHANGED <<status, result, cmdSetRef, pinRef, operationRef, requiresPinRef,
                   operationRunningRef, listening, startPending, stored, taps,
                   hpc, cmdSets, sentPin, opArg, apiDuringOp>>
    /\ event' = [call |-> "userCancelled"]
    /\ UNCHANGED screenVars

(* onNFCUserCancelled handler (lines 164-167) *)
UserCancelled ==
    /\ phase' = IF phase = "nfc" THEN "idle" ELSE phase
    /\ UNCHANGED <<status, result, cmdSetRef, pinRef, operationRef, requiresPinRef,
                   operationRunningRef, listening, startPending, stored, taps,
                   hpc, cmdSets, sentPin, opArg, apiDuringOp>>
    /\ event' = [call |-> "userCancelled"]
    /\ UNCHANGED screenVars

(* onNFCTimeout handler that also leaves the NFC phase *)
TimeoutToIdle ==
    /\ status' = StatusTimedOut
    /\ phase' = IF phase = "nfc" THEN "idle" ELSE phase
    /\ UNCHANGED <<result, cmdSetRef, pinRef, operationRef, requiresPinRef,
                   operationRunningRef, listening, startPending, stored, taps,
                   hpc, cmdSets, sentPin, opArg, apiDuringOp>>
    /\ event' = [call |-> "timeout"]
    /\ UNCHANGED screenVars

(* onNFCTimeout handler that sets the status in phase NFC only *)
TimeoutOnlyInNfc ==
    /\ status' = IF phase = "nfc" THEN StatusTimedOut ELSE status
    /\ UNCHANGED <<phase, result, cmdSetRef, pinRef, operationRef, requiresPinRef,
                   operationRunningRef, listening, startPending, stored, taps,
                   hpc, cmdSets, sentPin, opArg, apiDuringOp>>
    /\ event' = [call |-> "timeout"]
    /\ UNCHANGED screenVars

(* onNFCTimeout handler (lines 168-171) *)
Timeout ==
    /\ status' = StatusTimedOut
    /\ UNCHANGED <<phase, result, cmdSetRef, pinRef, operationRef, requiresPinRef,
                   operationRunningRef, listening, startPending, stored, taps,
                   hpc, cmdSets, sentPin, opArg, apiDuringOp>>
    /\ event' = [call |-> "timeout"]
    /\ UNCHANGED screenVars

(* RNKeycard.Core.startNFC(prompt): the hardware starts listening or the   *)
(* request fails; the promise settles later                                *)
StartNFC(ok) ==
    /\ Len(startPending) < MaxStarts
    /\ listening' = (listening \/ ok)
    /\ startPending' = Append(startPending, ok)

(* RNKeycard.Core.stopNFC().catch(() => {}) *)
StopNFC == listening' = FALSE

(* The options of execute: {} or {requiresPin} *)
ExecuteOptions == {[requiresPin |-> Undefined],
                   [requiresPin |-> Defined(TRUE)],
                   [requiresPin |-> Defined(FALSE)]}

(* requiresPin taken as false when omitted *)
RequiresPinOrFalse(options) == options.requiresPin = Defined(TRUE)

(* options.requiresPin ?? true (line 185) *)
RequiresPinOrDefault(options) ==
    IF options.requiresPin = Undefined THEN TRUE ELSE options.requiresPin[1]

(* execute(op, options) (lines 182-200), as far as the session goes *)
ExecuteCall(op, options, startOk) ==
    /\ operationRef' = op
    /\ requiresPinRef' = RequiresPinOrDefault(options)
    /\ operationRunningRef' = FALSE
    /\ IF requiresPinRef'
       THEN /\ phase' = "pin_entry"
            /\ UNCHANGED <<status, listening, startPending>>
       ELSE /\ status' = StatusTap
            /\ phase' = "nfc"
            /\ StartNFC(startOk)
    /\ apiDuringOp' = (InFlight # {})
    /\ UNCHANGED <<result, cmdSetRef, pinRef, stored, taps, hpc, cmdSets, sentPin, opArg>>
    /\ event' = [call |-> "execute", op |-> op, options |-> options]

(* execute(op, options) called by a caller that holds no other state *)
Execute(op, options, startOk) ==
    /\ ExecuteCall(op, options, startOk)
    /\ UNCHANGED screenVars

(* submitPin without the startNFC request *)
SubmitPinNoStart(pin, startOk) ==
    /\ pinRef' = pin
    /\ status' = StatusTap
    /\ phase' = "nfc"
    /\ UNCHANGED <<listening, startPending>>
    /\ UNCHANGED <<result, cmdSetRef, operationRef, requiresPinRef, operationRunningRef,
                   stored, taps, hpc, cmdSets, sentPin, opArg, apiDuringOp>>
    /\ event' = [call |-> "submitPin", pin |-> pin]
    /\ UNCHANGED screenVars

(* submitPin(pin) (lines 202-210), as far as the session goes *)
SubmitPinCall(pin, startOk) ==
    /\ pinRef' = pin
    /\ status' = StatusTap
    /\ phase' = "nfc"
    /\ StartNFC(startOk)
    /\ UNCHANGED <<result, cmdSetRef, operationRef, requiresPinRef, operationRunningRef,
                   stored, taps, hpc, cmdSets, sentPin, opArg, apiDuringOp>>
    /\ event' = [call |-> "submitPin", pin |-> pin]

(* submitPin(pin) called by a caller that holds no other state *)
SubmitPin(pin, startOk) ==
    /\ SubmitPinCall(pin, startOk)
    /\ UNCHANGED screenVars

(* The startNFC promise settling with an empty catch block *)
StartSettlesIgnoresFailure ==
    /\ startPending # <<>>
    /\ startPending' = Tail(startPending)
    /\ UNCHANGED <<status, phase>>
    /\ UNCHANGED <<result, cmdSetRef, pinRef, operationRef, requiresPinRef,
                   operationRunningRef, listening, stored, taps, hpc, cmdSets,
                   sentPin, opArg, apiDuringOp>>
    /\ event' = [call |-> "response"]
    /\ UNCHANGED screenVars

(* The startNFC promise of execute / submitPin settles (lines 193-196, 206-209) *)
StartSettles ==
    /\ startPending # <<>>
    /\ startPending' = Tail(startPending)
    /\ IF Head(startPending)
       THEN UNCHANGED <<status, phase>>
       ELSE /\ status' = StatusStartFailed(MsgStart)
            /\ phase' = "error"
    /\ UNCHANGED <<result, cmdSetRef, pinRef, operationRef, requiresPinRef,
                   operationRunningRef, listening, stored, taps, hpc, cmdSets,
                   sentPin, opArg, apiDuringOp>>
    /\ event' = [call |-> "response"]
    /\ UNCHANGED screenVars

(* cancel() without `pinRef.current = ''` *)
CancelKeepsPin ==
    /\ StopNFC
    /\ operationRef' = NoOperation
    /\ operationRunningRef' = FALSE
    /\ phase' = "idle"
    /\ status' = StatusEmpty
    /\ apiDuringOp' = (InFlight # {})
    /\ UNCHANGED <<result, cmdSetRef, pinRef, requiresPinRef, startPending, stored,
                   taps, hpc, cmdSets, sentPin, opArg>>
    /\ event' = [call |-> "cancel"]
    /\ UNCHANGED screenVars

(* cancel() (lines 212-219) *)
Cancel ==
    /\ StopNFC
    /\ pinRef' = EmptyPin
    /\ operationRef' = NoOperation
    /\ operationRunningRef' = FALSE
    /\ phase' = "idle"
    /\ status' = StatusEmpty
    /\ apiDuringOp' = (InFlight # {})
    /\ UNCHANGED <<result, cmdSetRef, requiresPinRef, startPending, stored, taps,
                   hpc, cmdSets, sentPin, opArg>>
    /\ event' = [call |-> "cancel"]
    /\ UNCHANGED screenVars

(* reset() without `setResult(null)` *)
ResetKeepsResult ==
    /\ StopNFC
    /\ pinRef' = EmptyPin
    /\ operationRef' = NoOperation
    /\ operationRunningRef' = FALSE
    /\ phase' = "idle"
    /\ status' = StatusEmpty
    /\ apiDuringOp' = (InFlight # {})
    /\ UNCHANGED <<result, cmdSetRef, requiresPinRef, startPending, stored, taps, hpc,
                   cmdSets, sentPin, opArg>>
    /\ event' = [call |-> "reset"]
    /\ UNCHANGED screenVars

(* reset() (lines 221-229) *)
Reset ==
    /\ StopNFC
    /\ pinRef' = EmptyPin
    /\ operationRef' = NoOperation
    /\ operationRunningRef' = FALSE
    /\ result' = NoResult
    /\ phase' = "idle"
    /\ status' = StatusEmpty
    /\ apiDuringOp' = (InFlight # {})
    /\ UNCHANGED <<cmdSetRef, requiresPinRef, startPending, stored, taps, hpc,
                   cmdSets, sentPin, opArg>>
    /\ event' = [call |-> "reset"]
    /\ UNCHANGED screenVars

SessionNext ==
    \/ Connected
    \/ \E h \in Handlers, o \in {"ok", "badsw", "noinfo", "throw"} : SelectResponse(h, o)
    \/ \E h \in Handlers, o \in {"resolve", "throw"} : LoadResponse(h, o)
    \/ \E h \in Handlers, ok \in BOOLEAN : PairResponse(h, ok)
    \/ \E h \in Handlers, ok \in BOOLEAN : SaveResponse(h, ok)
    \/ \E h \in Handlers, ok \in BOOLEAN : OpenResponse(h, ok)
    \/ \E h \in Handlers, o \in {"ok", "wrong", "throw"} : VerifyResponse(h, o)
    \/ \E h \in Handlers, ok \in BOOLEAN : OperationSettles(h, ok)
    \/ Disconnected
    \/ UserCancelled
    \/ Timeout
    \/ \E op \in Operations, options \in ExecuteOptions, ok \in BOOLEAN :
          Execute(op, options, ok)
    \/ \E pin \in Pins, ok \in BOOLEAN : SubmitPin(pin, ok)
    \/ StartSettles
    \/ Cancel
    \/ Reset

-----------------------------------------------------------------------------
(***************************************************************************)
(* Part II - the signature assembler, src/src/utils/ethSignature.ts        *)
(***************************************************************************)

(* Keycard TLV tags (lines 7-10) *)
TLV_SIGNATURE_TEMPLATE == 160
TLV_PUB_KEY == 128
TLV_ECDSA_TEMPLATE == 48
TLV_INTEGER == 2

(* CBOR encoding (lines 13-21) *)
CBOR_SMALL_MAX == 23
CBOR_BYTES_SMALL == 64
CBOR_BYTES_U8 == 88
CBOR_BYTES_U16 == 89
CBOR_TEXT_SMALL == 96
CBOR_TEXT_U8 == 120
CBOR_MAP_SMALL == 160
CBOR_TAG_U8 == 216
CBOR_TAG_UUID == 37

(* ERC-4527 eth-signature CBOR map keys (lines 24-26) *)
KEY_REQUEST_ID == 1
KEY_SIGNATURE == 2
KEY_ORIGIN == 3

(* secp256k1 / Ethereum (lines 29-33) *)
SCALAR_BYTES == 32
PUBKEY_PREFIX_EVEN == 2
PUBKEY_PREFIX_ODD == 3
V_BASE_LEGACY == 27
V_BASE_EIP155 == 35

-----------------------------------------------------------------------------
(* Bytes and bit operations *)

Fill(b, n) == [i \in 1..n |-> b]

RECURSIVE BitAnd(_, _)
BitAnd(a, b) ==
    IF a = 0 \/ b = 0 THEN 0
    ELSE (a % 2) * (b % 2) + 2 * BitAnd(a \div 2, b \div 2)

RECURSIVE BitOr(_, _)
BitOr(a, b) ==
    IF a = 0 THEN b
    ELSE IF b = 0 THEN a
    ELSE (IF a % 2 = 1 \/ b % 2 = 1 THEN 1 ELSE 0) + 2 * BitOr(a \div 2, b \div 2)

(* arr.slice(from, to) of a Uint8Array *)
Slice(arr, from, to) ==
    LET end == IF to < Len(arr) THEN to ELSE Len(arr)
    IN  IF from >= end THEN <<>> ELSE SubSeq(arr, from + 1, end)

-----------------------------------------------------------------------------
(* A JavaScript number too wide for one machine word is kept in two limbs, *)
(* hi * 65536 + lo: chain ids, and with them v, exceed 32 bits.            *)

Limb == 256 * 256

Num(n) == [hi |-> n \div Limb, lo |-> n % Limb]

NumAdd(a, b) ==
    [hi |-> a.hi + b.hi + ((a.lo + b.lo) \div Limb), lo |-> (a.lo + b.lo) % Limb]

NumTimes(k, a) ==
    [hi |-> k * a.hi + ((k * a.lo) \div Limb), lo |-> (k * a.lo) % Limb]

(* a <= n, for a machine-word n *)
NumAtMost(a, n) ==
    \/ a.hi < n \div Limb
    \/ a.hi = n \div Limb /\ a.lo <= n % Limb

(* (v >> shift) & 0xff: >> acts on the low 32 bits of v *)
ShiftRightAnd255(v, shift) ==
    CASE shift = 0 -> v.lo % 256
      [] shift = 8 -> v.lo \div 256
      [] shift = 16 -> v.hi % 256
      [] shift = 24 -> (v.hi \div 256) % 256

-----------------------------------------------------------------------------
(* Strings are sequences of one-character strings *)

HexDigits == <<"0", "1", "2", "3", "4", "5", "6", "7",
               "8", "9", "a", "b", "c", "d", "e", "f">>
HexDigitsUpper == <<"0", "1", "2", "3", "4", "5", "6", "7",
                    "8", "9", "A", "B", "C", "D", "E", "F">>

IsHexDigit(c) == \E i \in 1..16 : HexDigits[i] = c \/ HexDigitsUpper[i] = c

HexValue(c) == (CHOOSE i \in 1..16 : HexDigits[i] = c \/ HexDigitsUpper[i] = c) - 1

(* parseInt(str, 16) of a slice of at most two characters: <<n>>, or <<>>  *)
(* for NaN                                                                 *)
ParseInt16(str) ==
    IF Len(str) = 0 \/ ~IsHexDigit(str[1]) THEN <<>>
    ELSE IF Len(str) = 1 \/ ~IsHexDigit(str[2]) THEN <<HexValue(str[1])>>
    ELSE <<16 * HexValue(str[1]) + HexValue(str[2])>>

(* A store into a Uint8Array element: NaN is stored as 0 *)
ToUint8(n) == IF n = <<>> THEN 0 ELSE n[1] % 256

(* hexToBytes (lines 37-43) *)
HexToBytes(hex) ==
    [i \in 1..(Len(hex) \div 2) |->
        ToUint8(ParseInt16(Slice(hex, 2 * (i - 1), 2 * (i - 1) + 2)))]

(* s.charCodeAt(i) for the characters that occur *)
CharCodeAt(c) ==
    CASE c = "G" -> 71 [] c = "S" -> 83 [] c = "a" -> 97 [] c = "g" -> 103
      [] c = "i" -> 105 [] c = "n" -> 110 [] c = "p" -> 112 [] c = "-" -> 45

(* derIntTo32 (lines 45-53): <<bytes>>, or <<>> when padded.set throws a   *)
(* RangeError because stripped is longer than SCALAR_BYTES                 *)
(* derIntTo32 without the left padding of lines 50-52 *)
DerIntTo32NoPadding(arr) ==
    LET stripped == IF Len(arr) > 0 /\ arr[1] = 0 THEN Slice(arr, 1, Len(arr)) ELSE arr
    IN  IF Len(stripped) > SCALAR_BYTES THEN <<>> ELSE <<stripped>>

DerIntTo32(arr) ==
    LET stripped == IF Len(arr) > 0 /\ arr[1] = 0 THEN Slice(arr, 1, Len(arr)) ELSE arr
    IN  IF Len(stripped) = SCALAR_BYTES THEN <<stripped>>
        ELSE IF Len(stripped) > SCALAR_BYTES THEN <<>>
        ELSE <<Fill(0, SCALAR_BYTES - Len(stripped)) \o stripped>>

(* compressPubKey (lines 55-63); an element read past the end of y is      *)
(* undefined, and undefined & 1 is 0                                       *)
CompressPubKey(uncompressed) ==
    LET x == Slice(uncompressed, 1, 1 + SCALAR_BYTES)
        y == Slice(uncompressed, 1 + SCALAR_BYTES, 1 + 2 * SCALAR_BYTES)
        last == IF Len(y) >= SCALAR_BYTES THEN y[SCALAR_BYTES] ELSE 0
        prefix == IF BitAnd(last, 1) = 0 THEN PUBKEY_PREFIX_EVEN ELSE PUBKEY_PREFIX_ODD
    IN  <<prefix>> \o x \o Fill(0, SCALAR_BYTES - Len(x))

(* uint8ArrayEqual (lines 65-75) *)
Uint8ArrayEqual(a, b) ==
    IF Len(a) # Len(b) THEN FALSE
    ELSE \A i \in 1..Len(a) : a[i] = b[i]

(* uuid.replace(/-/g, '') *)
RECURSIVE RemoveDashes(_)
RemoveDashes(str) ==
    IF str = <<>> THEN <<>>
    ELSE IF Head(str) = "-" THEN RemoveDashes(Tail(str))
    ELSE <<Head(str)>> \o RemoveDashes(Tail(str))

(* uuidToBytes (lines 77-79) *)
UuidToBytes(uuid) == HexToBytes(RemoveDashes(uuid))

(* encodeV (lines 81-97) *)
EncodeV(v) ==
    IF NumAtMost(v, 255) THEN <<ShiftRightAnd255(v, 0)>>
    ELSE IF NumAtMost(v, 65535)
         THEN <<ShiftRightAnd255(v, 8), ShiftRightAnd255(v, 0)>>
    ELSE IF NumAtMost(v, 16777215)
         THEN <<ShiftRightAnd255(v, 16), ShiftRightAnd255(v, 8), ShiftRightAnd255(v, 0)>>
    ELSE <<ShiftRightAnd255(v, 24), ShiftRightAnd255(v, 16),
           ShiftRightAnd255(v, 8), ShiftRightAnd255(v, 0)>>

(* cborUint (lines 99-101) *)
CborUint(n) == <<n % 256>>

(* cborBytes (lines 103-116) *)
CborBytes(data) ==
    LET header ==
            IF Len(data) <= CBOR_SMALL_MAX THEN <<BitOr(CBOR_BYTES_SMALL, Len(data))>>
            ELSE IF Len(data) <= 255 THEN <<CBOR_BYTES_U8, Len(data)>>
            ELSE <<CBOR_BYTES_U16, BitAnd(Len(data) \div 256, 255), BitAnd(Len(data), 255)>>
    IN  header \o data

(* cborText (lines 118-133) *)
CborText(s) ==
    LET bytes == [i \in 1..Len(s) |-> CharCodeAt(s[i]) % 256]
        header ==
            IF Len(bytes) <= CBOR_SMALL_MAX THEN <<BitOr(CBOR_TEXT_SMALL, Len(bytes))>>
            ELSE <<CBOR_TEXT_U8, Len(bytes) % 256>>
    IN  header \o bytes

(* cborTag37Bytes (lines 135-142) *)
CborTag37Bytes(data) == <<CBOR_TAG_U8, CBOR_TAG_UUID>> \o CborBytes(data)

(* The string literal 'GapSign' of buildCbor *)
Origin == <<"G", "a", "p", "S", "i", "g", "n">>

(* buildCbor (lines 155-172); concat (lines 144-153) is \o *)
BuildCbor(sig, requestId) ==
    LET hasRequestId == requestId # Undefined /\ Len(requestId[1]) > 0
        mapSize == IF hasRequestId THEN 3 ELSE 2
        mapHeader == <<BitOr(CBOR_MAP_SMALL, mapSize)>>
        keySig == CborUint(KEY_SIGNATURE)
        valSig == CborBytes(sig)
        keyOrigin == CborUint(KEY_ORIGIN)
        valOrigin == CborText(Origin)
    IN  IF ~hasRequestId
        THEN mapHeader \o keySig \o valSig \o keyOrigin \o valOrigin
        ELSE LET keyId == CborUint(KEY_REQUEST_ID)
                 valId == CborTag37Bytes(UuidToBytes(requestId[1]))
             IN  mapHeader \o keyId \o valId \o keySig \o valSig \o keyOrigin \o valOrigin

-----------------------------------------------------------------------------
(* Keycard.BERTLV, the TLV reader: a cursor [buffer, pos] over the bytes   *)
(* of the card response.  A reader step yields ok = FALSE when it throws.  *)

(* The tag byte and the length at the cursor: short form, or the long      *)
(* forms 0x81 / 0x82                                                       *)
TLVHeader(tlv, expectedTag) ==
    LET b == tlv.buffer
        pos == tlv.pos
    IN  IF pos + 2 > Len(b) THEN [ok |-> FALSE, error |-> "end of buffer"]
        ELSE IF b[pos + 1] # expectedTag THEN [ok |-> FALSE, error |-> "unexpected tag"]
        ELSE IF b[pos + 2] = 129
             THEN IF pos + 3 > Len(b) THEN [ok |-> FALSE, error |-> "end of buffer"]
                  ELSE [ok |-> TRUE, length |-> b[pos + 3], pos |-> pos + 3]
        ELSE IF b[pos + 2] = 130
             THEN IF pos + 4 > Len(b) THEN [ok |-> FALSE, error |-> "end of buffer"]
                  ELSE [ok |-> TRUE, length |-> 256 * b[pos + 3] + b[pos + 4],
                        pos |-> pos + 4]
        ELSE [ok |-> TRUE, length |-> b[pos + 2], pos |-> pos + 2]

(* tlv.enterConstructed(tag) *)
EnterConstructed(tlv, tag) ==
    LET h == TLVHeader(tlv, tag)
    IN  IF ~h.ok THEN h
        ELSE [ok |-> TRUE, tlv |-> [buffer |-> tlv.buffer, pos |-> h.pos]]

(* readPrimitive that takes whatever tag it finds *)
ReadPrimitiveAnyTag(tlv, tag) ==
    LET found == IF tlv.pos < Len(tlv.buffer) THEN tlv.buffer[tlv.pos + 1] ELSE tag
        h == TLVHeader(tlv, found)
    IN  IF ~h.ok THEN h
        ELSE IF h.pos + h.length > Len(tlv.buffer)
             THEN [ok |-> FALSE, error |-> "end of buffer"]
        ELSE [ok |-> TRUE,
              value |-> SubSeq(tlv.buffer, h.pos + 1, h.pos + h.length),
              tlv |-> [buffer |-> tlv.buffer, pos |-> h.pos + h.length]]

(* tlv.readPrimitive(tag) *)
ReadPrimitive(tlv, tag) ==
    LET h == TLVHeader(tlv, tag)
    IN  IF ~h.ok THEN h
        ELSE IF h.pos + h.length > Len(tlv.buffer)
             THEN [ok |-> FALSE, error |-> "end of buffer"]
        ELSE [ok |-> TRUE,
              value |-> SubSeq(tlv.buffer, h.pos + 1, h.pos + h.length),
              tlv |-> [buffer |-> tlv.buffer, pos |-> h.pos + h.length]]

MsgRange == "offset is out of bounds"
MsgNoRecId == "[ethSignature] Cannot determine recovery ID"

(* The TLV parse of buildEthSignatureUR (lines 191-196), one definition    *)
(* per reader call, each handed what the calls before it produced          *)

(* line 196, derIntTo32 of the second integer *)
ParseDone(pubKeyRaw, r, sRaw) ==
    IF ~sRaw.ok THEN sRaw
    ELSE IF DerIntTo32(sRaw.value) = <<>> THEN [ok |-> FALSE, error |-> MsgRange]
    ELSE [ok |-> TRUE, pubKeyRaw |-> pubKeyRaw, r |-> r, s |-> DerIntTo32(sRaw.value)[1]]

(* line 196 reading s without checking its tag *)
ParseSAnyTag(pubKeyRaw, r, tlv) ==
    ParseDone(pubKeyRaw, r, ReadPrimitiveAnyTag(tlv, TLV_INTEGER))

(* line 196, tlv.readPrimitive(TLV_INTEGER) for s *)
ParseS(pubKeyRaw, r, tlv) ==
    ParseDone(pubKeyRaw, r, ReadPrimitive(tlv, TLV_INTEGER))

(* line 195, derIntTo32 of the first integer *)
ParseAfterR(pubKeyRaw, rRaw) ==
    IF ~rRaw.ok THEN rRaw
    ELSE IF DerIntTo32(rRaw.value) = <<>> THEN [ok |-> FALSE, error |-> MsgRange]
    ELSE ParseS(pubKeyRaw, DerIntTo32(rRaw.value)[1], rRaw.tlv)

(* lines 194-195, down to tlv.readPrimitive(TLV_INTEGER) for r *)
ParseAfterEcdsa(pubKeyRaw, ecdsa) ==
    IF ~ecdsa.ok THEN ecdsa
    ELSE ParseAfterR(pubKeyRaw, ReadPrimitive(ecdsa.tlv, TLV_INTEGER))

(* lines 193-194, down to tlv.enterConstructed(TLV_ECDSA_TEMPLATE) *)
ParseAfterPubKey(pubKeyRaw) ==
    IF ~pubKeyRaw.ok THEN pubKeyRaw
    ELSE ParseAfterEcdsa(pubKeyRaw.value,
                         EnterConstructed(pubKeyRaw.tlv, TLV_ECDSA_TEMPLATE))

(* lines 192-193, down to tlv.readPrimitive(TLV_PUB_KEY) *)
ParseAfterTemplate(template) ==
    IF ~template.ok THEN template
    ELSE ParseAfterPubKey(ReadPrimitive(template.tlv, TLV_PUB_KEY))

(* lines 191-192, from new Keycard.BERTLV(hexToBytes(signRespDataHex)) *)
ParseSignature(signRespDataHex) ==
    ParseAfterTemplate(
        EnterConstructed([buffer |-> HexToBytes(signRespDataHex), pos |-> 0],
                         TLV_SIGNATURE_TEMPLATE))

(* secp.recoverPublicKey(recovered, hash, {prehash: false}): the key the   *)
(* curve yields for the recovery id in the first byte of recovered         *)
RecoverPublicKey(recovered, hash) == curve[recovered[1] + 1]

(* The recovery-id loop trying candidate 0 only *)
RECURSIVE FindRecIdOnlyZero(_, _, _, _)
FindRecIdOnlyZero(i, compact, hash, compressedPubKey) ==
    IF i >= 1 THEN -1
    ELSE LET recovered == <<i>> \o compact
             candidate == RecoverPublicKey(recovered, hash)
         IN  IF Uint8ArrayEqual(candidate, compressedPubKey) THEN i
             ELSE FindRecIdOnlyZero(i + 1, compact, hash, compressedPubKey)

(* The recovery-id loop (lines 204-215), from candidate i on: the first    *)
(* candidate whose recovered key equals the compressed key, or -1          *)
RECURSIVE FindRecId(_, _, _, _)
FindRecId(i, compact, hash, compressedPubKey) ==
    IF i >= 2 THEN -1
    ELSE LET recovered == <<i>> \o compact
             candidate == RecoverPublicKey(recovered, hash)
         IN  IF Uint8ArrayEqual(candidate, compressedPubKey) THEN i
             ELSE FindRecId(i + 1, compact, hash, compressedPubKey)

(* The switch with case 4 falling through to the default *)
ComputeVNoEip1559(dataType, chainId, recId) ==
    CASE dataType = Defined(1) ->
            NumAdd(NumAdd(Num(V_BASE_EIP155),
                          NumTimes(2, IF chainId = Undefined THEN Num(0) ELSE chainId[1])),
                   Num(recId))
      [] OTHER -> Num(V_BASE_LEGACY + recId)

(* The switch on dataType (lines 222-232) *)
ComputeV(dataType, chainId, recId) ==
    CASE dataType = Defined(1) ->
            NumAdd(NumAdd(Num(V_BASE_EIP155),
                          NumTimes(2, IF chainId = Undefined THEN Num(0) ELSE chainId[1])),
                   Num(recId))
      [] dataType = Defined(4) -> Num(recId)
      [] OTHER -> Num(V_BASE_LEGACY + recId)

(* UREncoder.encodeSinglePart(new UR(cbor, type)): scheme, type and the    *)
(* payload that carries the CBOR bytes                                     *)
EncodeSinglePart(ur) == <<"ur:", ur.type, "/", ur.cbor>>

(* Lines 198-199: the log of r and s *)
LogRS(r, s) == <<[tag |-> "r", value |-> r], [tag |-> "s", value |-> s]>>

(* Lines 238-241: the UR is built, logged and returned *)
ReturnUR(r, s, recId, v, urString) ==
    [kind |-> "return", value |-> urString,
     log |-> LogRS(r, s) \o <<[tag |-> "recId", value |-> recId],
                              [tag |-> "v", value |-> v],
                              [tag |-> "UR", value |-> urString]>>]

(* Lines 235-239: v is serialized, the signature assembled and encoded *)
EncodeSignature(r, s, recId, v, requestId) ==
    ReturnUR(r, s, recId, v,
             EncodeSinglePart([type |-> "eth-signature",
                               cbor |-> BuildCbor(r \o s \o EncodeV(v), requestId)]))

(* Lines 217-233: no recovery id is an error, else v is computed *)
WithRecId(r, s, recId, dataType, chainId, requestId) ==
    IF recId = -1
    THEN [kind |-> "throw", message |-> MsgNoRecId, log |-> LogRS(r, s)]
    ELSE EncodeSignature(r, s, recId, ComputeV(dataType, chainId, recId), requestId)

(* Lines 197-215: the parse threw, or the recovery id is searched *)
WithParsed(parsed, hash, dataType, chainId, requestId) ==
    IF ~parsed.ok
    THEN [kind |-> "throw", message |-> parsed.error, log |-> <<>>]
    ELSE WithRecId(parsed.r, parsed.s,
                   FindRecId(0, parsed.r \o parsed.s, hash,
                             CompressPubKey(parsed.pubKeyRaw)),
                   dataType, chainId, requestId)

(* buildEthSignatureUR (lines 184-242): what it returns or throws, and     *)
(* what it logs on the way                                                 *)
BuildEthSignatureUR(signRespDataHex, hash, dataType, chainId, requestId) ==
    WithParsed(ParseSignature(signRespDataHex), hash, dataType, chainId, requestId)

-----------------------------------------------------------------------------
(* The card side: how a signature response is framed                       *)
(* (src/__tests__/ethSignature.test.ts lines 9-62)                         *)

(* tlvEncode *)
TlvEncode(tag, value) ==
    LET len == Len(value)
        header == IF len < 128 THEN <<tag, len>>
                  ELSE IF len < 256 THEN <<tag, 129, len>>
                  ELSE <<tag, 130, BitAnd(len \div 256, 255), BitAnd(len, 255)>>
    IN  header \o value

(* The index of the first significant byte of n (the while loop of derInt) *)
RECURSIVE DerStart(_, _)
DerStart(n, start) ==
    IF start < Len(n) - 1 /\ n[start + 1] = 0 THEN DerStart(n, start + 1) ELSE start

(* derInt *)
DerInt(n) ==
    LET trimmed == Slice(n, DerStart(n, 0), Len(n))
    IN  IF trimmed[1] >= 128 THEN TlvEncode(2, <<0>> \o trimmed)
        ELSE TlvEncode(2, trimmed)

(* buildSignatureTLV, before the hex conversion *)
BuildSignatureTLV(pubKey, r, s) ==
    LET sequence == TlvEncode(48, DerInt(r) \o DerInt(s))
        inner == TlvEncode(128, pubKey) \o sequence
    IN  TlvEncode(160, inner)

(* Array.from(bytes).map(b => b.toString(16).padStart(2, '0')).join('')    *)
(* (src/src/screens/KeycardScreen.tsx lines 69-71)                         *)
ToHex(bytes) ==
    [i \in 1..(2 * Len(bytes)) |->
        IF i % 2 = 1 THEN HexDigits[(bytes[(i + 1) \div 2] \div 16) + 1]
        ELSE HexDigits[(bytes[i \div 2] % 16) + 1]]

-----------------------------------------------------------------------------
(* The inputs the assembler is run on *)

(* Two key pairs: uncompressed 04 || x || y with y even and y odd, each    *)
(* with its compressed form and the compressed form of its negation        *)
CardKeys ==
    { [raw |-> <<4>> \o Fill(17, 32) \o Fill(34, 32),
       compressed |-> <<2>> \o Fill(17, 32),
       negated |-> <<3>> \o Fill(17, 32)],
      [raw |-> <<4>> \o Fill(51, 32) \o Fill(34, 31) \o <<35>>,
       compressed |-> <<3>> \o Fill(51, 32),
       negated |-> <<2>> \o Fill(51, 32)] }

(* A key that is neither the card's nor its negation *)
OtherKey == <<2>> \o Fill(85, 32)
OtherKeyNegated == <<3>> \o Fill(85, 32)

(* 32-byte scalars whose DER integers are 32 bytes, 33 bytes (padded),     *)
(* 31 bytes (short), and 32 bytes that begin with the padding byte         *)
ScalarsR ==
    { <<127>> \o Fill(161, 31),
      <<128>> \o Fill(161, 31),
      <<0, 127>> \o Fill(161, 30),
      <<0, 200>> \o Fill(161, 30) }

ScalarsS ==
    { <<1>> \o Fill(178, 31),
      <<255>> \o Fill(178, 31) }

(* How the response bytes are damaged before they reach the assembler *)
Shapes == {"card", "tagTemplate", "tagPubKey", "tagEcdsa", "tagR", "tagS",
           "noS", "cutS", "deadbeef", "empty"}

BaseKey == CHOOSE k \in CardKeys : k.compressed[1] = 2
BaseR == <<127>> \o Fill(161, 31)
BaseS == <<1>> \o Fill(178, 31)

BaseSignature == [key |-> BaseKey, r |-> BaseR, s |-> BaseS, shape |-> "card"]

CardSignatures ==
    [key : CardKeys, r : ScalarsR, s : ScalarsS, shape : {"card"}]
    \cup [key : {BaseKey}, r : {BaseR}, s : {BaseS}, shape : Shapes \ {"card"}]

ReplaceAt(bytes, index, b) == [bytes EXCEPT ![index] = b]

(* A response with one tag replaced or its end cut off *)
Damaged(good, shape, pubKeyAt, ecdsaAt, rAt, sAt) ==
    CASE shape = "card" -> good
      [] shape = "tagTemplate" -> ReplaceAt(good, 1, 4)
      [] shape = "tagPubKey" -> ReplaceAt(good, pubKeyAt, 4)
      [] shape = "tagEcdsa" -> ReplaceAt(good, ecdsaAt, 4)
      [] shape = "tagR" -> ReplaceAt(good, rAt, 4)
      [] shape = "tagS" -> ReplaceAt(good, sAt, 4)
      [] shape = "noS" -> SubSeq(good, 1, sAt - 1)
      [] shape = "cutS" -> SubSeq(good, 1, Len(good) - 5)
      [] shape = "deadbeef" -> <<222, 173, 190, 239>>
      [] shape = "empty" -> <<>>

(* The bytes the card session hands over as signResp.data; the tags sit    *)
(* behind the 3-byte template header, the 67-byte public key and the       *)
(* 2-byte header of the integer pair                                       *)
ResponseBytes(sig) ==
    Damaged(BuildSignatureTLV(sig.key.raw, sig.r, sig.s), sig.shape,
            4, 71, 73, 73 + Len(DerInt(sig.r)))

(* What recovery yields for recovery ids 0 and 1: the card's key and its   *)
(* negation in either order, or an unrelated pair                          *)
Curves(key) ==
    { <<key.compressed, key.negated>>,
      <<key.negated, key.compressed>>,
      <<OtherKey, OtherKeyNegated>> }

Hash == Fill(171, 32)

DataTypes == {Undefined} \cup {Defined(t) : t \in 0..5}

(* Chain ids: absent, 0, and ids whose v takes 1, 2, 3, 4 and 5 bytes      *)
ChainIds ==
    {Undefined} \cup
    {Defined(c) : c \in {Num(0), Num(1), Num(137), Num(100000), Num(11155111),
                         [hi |-> 172380, lo |-> 12429]}}

RequestIdBytes == <<1, 2, 3, 4, 5, 6, 7, 8, 9, 10, 11, 12, 13, 14, 15, 16>>

(* The same identifier as 8-4-4-4-12 text *)
Dashed(hex) ==
    SubSeq(hex, 1, 8) \o <<"-">> \o SubSeq(hex, 9, 12) \o <<"-">> \o
    SubSeq(hex, 13, 16) \o <<"-">> \o SubSeq(hex, 17, 20) \o <<"-">> \o
    SubSeq(hex, 21, 32)

RequestIds ==
    {Undefined, Defined(<<>>), Defined(ToHex(RequestIdBytes)),
     Defined(Dashed(ToHex(RequestIdBytes)))}

NotRun == [kind |-> "none"]
NotScanned == [ok |-> FALSE, pending |-> TRUE]
NoSignature == [shape |-> "none"]

(* The Keycard screen, and the QRResult screen navigation.reset leads to   *)
(* (KeycardScreen.tsx lines 77-86)                                         *)
KeycardRoute == [name |-> "Keycard"]
QRResultRoute(urString) ==
    [name |-> "QRResult", urString |-> urString, label |-> "Scan with MetaMask"]

(* console.error('[KeycardScreen] Failed to build UR:', e.message) *)
FailedToBuildUR(message) == <<"[KeycardScreen] Failed to build UR:", message>>

-----------------------------------------------------------------------------
(* The wallet side: decodeUR of the tests                                  *)
(* (src/__tests__/ethSignature.test.ts lines 66-70)                        *)

(* One CBOR data item at 0-based position pos: unsigned integer, byte      *)
(* string, text string or tagged item                                      *)
RECURSIVE CborItem(_, _)
CborItem(b, pos) ==
    IF pos >= Len(b) THEN [ok |-> FALSE]
    ELSE
    LET major == b[pos + 1] \div 32
        info == b[pos + 1] % 32
        arg == IF info < 24 THEN [ok |-> TRUE, n |-> info, next |-> pos + 1]
               ELSE IF info = 24 /\ pos + 2 <= Len(b)
                    THEN [ok |-> TRUE, n |-> b[pos + 2], next |-> pos + 2]
               ELSE IF info = 25 /\ pos + 3 <= Len(b)
                    THEN [ok |-> TRUE, n |-> 256 * b[pos + 2] + b[pos + 3],
                          next |-> pos + 3]
               ELSE [ok |-> FALSE]
    IN  IF ~arg.ok THEN [ok |-> FALSE]
        ELSE CASE major = 0 ->
                    [ok |-> TRUE, value |-> [major |-> 0, n |-> arg.n], next |-> arg.next]
               [] major \in {2, 3} ->
                    IF arg.next + arg.n > Len(b) THEN [ok |-> FALSE]
                    ELSE [ok |-> TRUE,
                          value |-> [major |-> major,
                                     bytes |-> SubSeq(b, arg.next + 1, arg.next + arg.n)],
                          next |-> arg.next + arg.n]
               [] major = 6 ->
                    LET inner == CborItem(b, arg.next)
                    IN  IF ~inner.ok THEN [ok |-> FALSE]
                        ELSE [ok |-> TRUE,
                              value |-> [major |-> 6, tag |-> arg.n, item |-> inner.value],
                              next |-> inner.next]
               [] OTHER -> [ok |-> FALSE]

(* n key/value pairs from position pos on *)
RECURSIVE CborEntries(_, _, _)
CborEntries(b, pos, n) ==
    IF n = 0 THEN [ok |-> TRUE, entries |-> <<>>, next |-> pos]
    ELSE LET key == CborItem(b, pos)
         IN  IF ~key.ok \/ key.value.major # 0 THEN [ok |-> FALSE]
             ELSE LET val == CborItem(b, key.next)
                  IN  IF ~val.ok THEN [ok |-> FALSE]
                      ELSE LET rest == CborEntries(b, val.next, n - 1)
                           IN  IF ~rest.ok THEN [ok |-> FALSE]
                               ELSE [ok |-> TRUE,
                                     entries |-> <<[key |-> key.value.n,
                                                    value |-> val.value]>> \o rest.entries,
                                     next |-> rest.next]

(* CBOR.decode of a map with small integer keys: the object it yields *)
CborDecode(b) ==
    IF Len(b) = 0 \/ b[1] \div 32 # 5 \/ b[1] % 32 >= 24 THEN [ok |-> FALSE]
    ELSE LET got == CborEntries(b, 1, b[1] % 32)
         IN  IF ~got.ok \/ got.next # Len(b) THEN [ok |-> FALSE]
             ELSE [ok |-> TRUE,
                   size |-> Len(got.entries),
                   map |-> [k \in {got.entries[i].key : i \in 1..Len(got.entries)} |->
                              (got.entries[CHOOSE i \in 1..Len(got.entries) :
                                              got.entries[i].key = k]).value]]

(* decoder.receivePart(urString); decoder.resultUR().cbor *)
ResultUR(urString) == urString[4]

DecodeUR(urString) == CborDecode(ResultUR(urString))

-----------------------------------------------------------------------------
(* The assembler run on one card response *)

AssemblerIdle ==
    /\ cardSignature = NoSignature
    /\ curve = <<>>
    /\ args = <<>>
    /\ urResult = NotRun
    /\ consoleLog = <<>>
    /\ scanned = NotScanned
    /\ route = KeycardRoute
    /\ consoleError = <<>>

(* Every card response is assembled for two data types with and without   *)
(* a request id; the undamaged base response for every data type, chain    *)
(* id and request id                                                       *)
AssemblerInit ==
    /\ cardSignature \in CardSignatures
    /\ curve \in Curves(cardSignature.key)
    /\ \E dataType \in DataTypes, chainId \in ChainIds, requestId \in RequestIds :
          /\ cardSignature # BaseSignature =>
                /\ dataType \in {Defined(1), Defined(4)}
                /\ chainId = Defined(Num(1))
                /\ requestId \in {Undefined, Defined(ToHex(RequestIdBytes))}
          /\ args = [signRespDataHex |-> ToHex(ResponseBytes(cardSignature)),
                     hash |-> Hash,
                     dataType |-> dataType,
                     chainId |-> chainId,
                     requestId |-> requestId]
    /\ urResult = NotRun
    /\ consoleLog = <<>>
    /\ scanned = NotScanned
    /\ route = KeycardRoute
    /\ consoleError = <<>>

(* What the effect does with the outcome of buildEthSignatureUR            *)
(* (KeycardScreen.tsx lines 77-89): navigation.reset to QRResult with the  *)
(* UR, or console.error in the catch block; the hook is not called         *)
ShowOutcome(out) ==
    /\ urResult' = IF out.kind = "return"
                   THEN [kind |-> "return", value |-> out.value]
                   ELSE [kind |-> "throw", message |-> out.message]
    /\ consoleLog' = out.log
    /\ IF out.kind = "return"
       THEN route' = QRResultRoute(out.value) /\ UNCHANGED consoleError
       ELSE consoleError' = FailedToBuildUR(out.message) /\ UNCHANGED route

(* The effect of KeycardScreen on phase 'done' (lines 62-90): it runs once *)
(* the session is done with a result, and calls buildEthSignatureUR        *)
Assemble ==
    /\ phase = "done" /\ result # NoResult
    /\ urResult = NotRun
    /\ ShowOutcome(BuildEthSignatureUR(args.signRespDataHex, args.hash, args.dataType,
                                       args.chainId, args.requestId))
    /\ UNCHANGED <<cardSignature, curve, args, scanned>>
    /\ UNCHANGED <<sessionVars, parserVars, scannerVars, keycardVars>>

(* The wallet scans the returned UR and decodes its map *)
Scan ==
    /\ urResult.kind = "return"
    /\ scanned = NotScanned
    /\ scanned' = DecodeUR(urResult.value)
    /\ UNCHANGED <<cardSignature, curve, args, urResult, consoleLog, route,
                   consoleError>>
    /\ UNCHANGED <<sessionVars, parserVars, scannerVars, keycardVars>>

AssemblerNext ==
    \/ Assemble
    \/ Scan

-----------------------------------------------------------------------------
(***************************************************************************)
(* Part III - the UR parser, src/src/utils/ur.ts                           *)
(***************************************************************************)

(* JavaScript values, as CBOR.decode yields them: a number is n / d *)
JsUndefined == [t |-> "undefined"]
JsNull == [t |-> "null"]
JsBoolean(b) == [t |-> "boolean", v |-> b]
JsNumber(n) == [t |-> "number", n |-> n, d |-> 1]
JsHalves(n) == [t |-> "number", n |-> n, d |-> 2]
JsString(chars) == [t |-> "string", v |-> chars]
JsBuffer(bytes) == [t |-> "buffer", v |-> bytes]
JsArray(items) == [t |-> "array", v |-> items]
JsObject(properties) == [t |-> "object", v |-> properties]

Nullish(x) == x.t \in {"undefined", "null"}

(* ToBoolean: what `x ? a : b`, `!x` and `x || y` test *)
Truthy(x) ==
    CASE x.t \in {"undefined", "null"} -> FALSE
      [] x.t = "boolean" -> x.v
      [] x.t = "number" -> x.n # 0
      [] x.t = "string" -> x.v # <<>>
      [] OTHER -> TRUE

(* typeof x *)
TypeOf(x) ==
    CASE x.t \in {"null", "buffer", "array", "object"} -> "object"
      [] OTHER -> x.t

(* The property names the parser reads, and the array index of each *)
PropertyIndex == [name \in {"1", "2", "3", "4", "5", "6", "7"} |->
                    CHOOSE i \in 1..7 : <<"1", "2", "3", "4", "5", "6", "7">>[i] = name]

(* x[name] for an x that is neither undefined nor null *)
Get(x, name) ==
    CASE x.t = "object" ->
            IF name \in DOMAIN x.v THEN x.v[name] ELSE JsUndefined
      [] x.t = "array" /\ name \in DOMAIN PropertyIndex ->
            IF PropertyIndex[name] < Len(x.v) THEN x.v[PropertyIndex[name] + 1]
            ELSE JsUndefined
      [] x.t = "buffer" /\ name \in DOMAIN PropertyIndex ->
            IF PropertyIndex[name] < Len(x.v) THEN JsNumber(x.v[PropertyIndex[name] + 1])
            ELSE JsUndefined
      [] x.t = "string" /\ name \in DOMAIN PropertyIndex ->
            IF PropertyIndex[name] < Len(x.v) THEN JsString(<<x.v[PropertyIndex[name] + 1]>>)
            ELSE JsUndefined
      [] OTHER -> JsUndefined

(* a || b *)
Or(a, b) == IF Truthy(a) THEN a ELSE b

DecimalDigits == <<"0", "1", "2", "3", "4", "5", "6", "7", "8", "9">>

RECURSIVE Decimal(_)
Decimal(n) ==
    IF n < 10 THEN <<DecimalDigits[n + 1]>>
    ELSE Decimal(n \div 10) \o <<DecimalDigits[(n % 10) + 1]>>

(* Number.prototype.toString for n / d with d 1 or 2 *)
NumberToString(x) ==
    LET abs == IF x.n < 0 THEN -x.n ELSE x.n
        sign == IF x.n < 0 THEN <<"-">> ELSE <<>>
    IN  IF x.d = 1 THEN sign \o Decimal(abs)
        ELSE IF abs % 2 = 0 THEN sign \o Decimal(abs \div 2)
        ELSE sign \o Decimal(abs \div 2) \o <<".", "5">>

RECURSIVE Join(_, _)
Join(parts, separator) ==
    IF parts = <<>> THEN <<>>
    ELSE IF Len(parts) = 1 THEN parts[1]
    ELSE parts[1] \o separator \o Join(Tail(parts), separator)

(* String(x) and `${x}` *)
RECURSIVE ToStr(_)
ToStr(x) ==
    CASE x.t = "undefined" -> <<"u", "n", "d", "e", "f", "i", "n", "e", "d">>
      [] x.t = "null" -> <<"n", "u", "l", "l">>
      [] x.t = "boolean" -> IF x.v THEN <<"t", "r", "u", "e">>
                            ELSE <<"f", "a", "l", "s", "e">>
      [] x.t = "number" -> NumberToString(x)
      [] x.t = "string" -> x.v
      [] x.t = "array" ->
            Join([i \in 1..Len(x.v) |->
                    IF Nullish(x.v[i]) THEN <<>> ELSE ToStr(x.v[i])], <<",">>)
      [] x.t = "buffer" -> [i \in 1..Len(x.v) |-> "?"]
      [] OTHER -> <<"[", "o", "b", "j", "e", "c", "t", " ",
                    "O", "b", "j", "e", "c", "t", "]">>

(* What a call either does *)
Throws(message) == [threw |-> TRUE, message |-> message]
Returns(value) == [threw |-> FALSE, value |-> value]

MsgReadOfNull == "Cannot read properties of null"
MsgReadOfUndefined == "Cannot read properties of undefined"
MsgGetNotFunction == "pathMap.get is not a function"

Unknown == <<"u", "n", "k", "n", "o", "w", "n">>

(* The loop of parseDerivationPath (lines 253-257) from index i (1-based) *)
RECURSIVE PathParts(_, _)
PathParts(components, i) ==
    IF i > Len(components) THEN <<>>
    ELSE LET index == components[i]
             hardened == IF i + 1 <= Len(components) THEN components[i + 1]
                         ELSE JsUndefined
         IN  <<ToStr(index) \o (IF Truthy(hardened) THEN <<"'">> ELSE <<>>)>>
             \o PathParts(components, i + 2)

(* tagged?.value ?? tagged (line 241) *)
PathMap(tagged) ==
    IF Nullish(tagged) THEN tagged
    ELSE IF Nullish(Get(tagged, "value")) THEN tagged
    ELSE Get(tagged, "value")

(* parseDerivationPath stepping by one element instead of two *)
PathOfComponentsEveryElement(components) ==
    IF components.t # "array" THEN Returns(Unknown)
    ELSE Returns(<<"m", "/">> \o
                 Join([i \in 1..Len(components.v) |->
                          ToStr(components.v[i]) \o
                          (IF i + 1 <= Len(components.v) /\ Truthy(components.v[i + 1])
                           THEN <<"'">> ELSE <<>>)], <<"/">>))

(* The rest of parseDerivationPath once components is known (lines 247-259) *)
PathOfComponents(components) ==
    IF components.t # "array" THEN Returns(Unknown)
    ELSE Returns(<<"m", "/">> \o Join(PathParts(components.v, 1), <<"/">>))

(* parseDerivationPath without the guard of lines 242-244 *)
ParseDerivationPathNoGuard(tagged) ==
    IF Nullish(PathMap(tagged))
    THEN Throws(IF PathMap(tagged).t = "null" THEN MsgReadOfNull ELSE MsgReadOfUndefined)
    ELSE IF Truthy(Get(PathMap(tagged), "1"))
    THEN PathOfComponents(Get(PathMap(tagged), "1"))
    ELSE IF Nullish(Get(PathMap(tagged), "get")) THEN Returns(Unknown)
    ELSE Throws(MsgGetNotFunction)

(* parseDerivationPath (lines 238-260); pathMap.get?.(1) calls a property  *)
(* named get that is present, and a decoded value is never a function      *)
ParseDerivationPath(tagged) ==
    IF ~Truthy(PathMap(tagged)) \/ TypeOf(PathMap(tagged)) # "object"
    THEN Returns(Unknown)
    ELSE IF Truthy(Get(PathMap(tagged), "1"))
    THEN PathOfComponents(Get(PathMap(tagged), "1"))
    ELSE IF Nullish(Get(PathMap(tagged), "get")) THEN Returns(Unknown)
    ELSE Throws(MsgGetNotFunction)

(* decoded[k] || decoded['k'] (lines 266-272): both read the same property *)
Lookup(decoded, name) == Or(Get(decoded, name), Get(decoded, name))

(* Buffer.isBuffer(x) ? prefix + x.toString('hex') : String(x) *)
HexOrString(x, prefix) ==
    IF x.t = "buffer" THEN JsString(prefix \o ToHex(x.v)) ELSE JsString(ToStr(x))

(* The object parseEthSignRequest returns (lines 274-292) *)
RequestOf(decoded, derivationPath) ==
    [signData |-> HexOrString(Lookup(decoded, "2"), <<>>),
     dataType |-> IF TypeOf(Lookup(decoded, "3")) = "number"
                  THEN Lookup(decoded, "3") ELSE JsNumber(1),
     requestId |-> IF Truthy(Lookup(decoded, "1"))
                   THEN HexOrString(Lookup(decoded, "1"), <<>>) ELSE JsUndefined,
     chainId |-> IF TypeOf(Lookup(decoded, "4")) = "number"
                 THEN Lookup(decoded, "4") ELSE JsUndefined,
     derivationPath |-> derivationPath,
     address |-> IF Truthy(Lookup(decoded, "6"))
                 THEN HexOrString(Lookup(decoded, "6"), <<"0", "x">>) ELSE JsUndefined,
     origin |-> IF TypeOf(Lookup(decoded, "7")) = "string"
                THEN Lookup(decoded, "7") ELSE JsUndefined]

(* parseEthSignRequest after CBOR.decode returned (lines 266-292) *)
ParseDecoded(decoded) ==
    IF Nullish(decoded)
    THEN Throws(IF decoded.t = "null" THEN MsgReadOfNull ELSE MsgReadOfUndefined)
    ELSE IF ParseDerivationPath(Lookup(decoded, "5")).threw
    THEN ParseDerivationPath(Lookup(decoded, "5"))
    ELSE Returns(RequestOf(decoded, ParseDerivationPath(Lookup(decoded, "5")).value))

(* parseEthSignRequest (lines 262-293), given what CBOR.decode does *)
ParseEthSignRequest(decodeOutcome) ==
    IF decodeOutcome.threw THEN decodeOutcome
    ELSE ParseDecoded(decodeOutcome.value)

FailedToParse(message) == <<"Failed to parse sign request: ", message>>

(* handleUR without its try/catch *)
HandleURNoCatch(type, decodeOutcome) ==
    IF type = "eth-sign-request"
    THEN IF ParseEthSignRequest(decodeOutcome).threw
         THEN [kind |-> "thrown", message |-> ParseEthSignRequest(decodeOutcome).message]
         ELSE [kind |-> "eth-sign-request",
               request |-> ParseEthSignRequest(decodeOutcome).value]
    ELSE [kind |-> "unsupported", type |-> type]

(* handleUR (lines 295-307) *)
HandleUR(type, decodeOutcome) ==
    IF type = "eth-sign-request"
    THEN IF ParseEthSignRequest(decodeOutcome).threw
         THEN [kind |-> "error",
               message |-> FailedToParse(ParseEthSignRequest(decodeOutcome).message)]
         ELSE [kind |-> "eth-sign-request",
               request |-> ParseEthSignRequest(decodeOutcome).value]
    ELSE [kind |-> "unsupported", type |-> type]

-----------------------------------------------------------------------------
(* The inputs the parser is run on *)

Absent == [t |-> "absent"]

URTypes == {"eth-sign-request", "crypto-psbt"}

MsgDecode == "unexpected end of input"

(* Component sequences of a derivation path: none, pairs, odd lengths,     *)
(* flags that are not booleans                                             *)
ComponentLists ==
    {<<>>,
     <<JsNumber(44), JsBoolean(TRUE)>>,
     <<JsNumber(0), JsBoolean(FALSE), JsNumber(1), JsBoolean(FALSE)>>,
     <<JsNumber(44), JsBoolean(TRUE), JsNumber(60), JsBoolean(TRUE),
       JsNumber(0), JsBoolean(TRUE), JsNumber(0), JsBoolean(FALSE)>>,
     <<JsNumber(2147483647), JsNumber(1), JsNumber(7), JsNumber(0)>>,
     <<JsNumber(60)>>,
     <<JsNumber(44), JsBoolean(TRUE), JsNumber(60)>>}

NotAMap == JsString(<<"n", "o", "t", "-", "a", "-", "m", "a", "p">>)

PathMaps ==
    {JsObject([name \in {"1"} |-> JsArray(c)]) : c \in ComponentLists}
    \cup {JsObject([name \in {"1"} |-> NotAMap]),
          JsObject([name \in {"2"} |-> JsNumber(4)]),
          JsObject([name \in {"get"} |-> JsNumber(5)])}

(* The values of key 5: absent, not a map, a map, a tagged map *)
DerivationPaths ==
    {Absent, NotAMap, JsNumber(5)}
    \cup PathMaps
    \cup {JsObject([name \in {"tag", "value"} |->
                      IF name = "tag" THEN JsNumber(304) ELSE m]) :
            m \in {JsObject([name \in {"1"} |-> JsArray(c)]) :
                      c \in {<<>>, <<JsNumber(44), JsBoolean(TRUE)>>}}}

Payload == JsBuffer(<<222, 173, 190, 239>>)
AddressBytes == JsBuffer(<<171, 205, 239, 18>>)

FieldValues ==
    <<{Absent, JsBuffer(<<1, 2, 3, 4>>)},
      {Absent, Payload},
      {Absent, JsNumber(1), JsNumber(2), JsNumber(3), JsNumber(4), JsNumber(0),
       JsNumber(7), JsHalves(5), JsString(<<"3">>)},
      {Absent, JsNumber(1), JsString(<<"1">>)},
      DerivationPaths,
      {Absent, AddressBytes},
      {Absent, JsString(Origin), JsNumber(9)}>>

Names == <<"1", "2", "3", "4", "5", "6", "7">>

(* The object CBOR.decode builds for a map with the given values *)
RequestMap(fields) ==
    JsObject([name \in {Names[i] : i \in {j \in 1..7 : fields[j] # Absent}} |->
                fields[PropertyIndex[name]]])

RequestMaps ==
    {RequestMap(<<f1, f2, f3, f4, f5, f6, f7>>) :
        f1 \in FieldValues[1], f2 \in FieldValues[2], f3 \in FieldValues[3],
        f4 \in FieldValues[4], f5 \in FieldValues[5], f6 \in FieldValues[6],
        f7 \in FieldValues[7]}

(* CBOR.decode throws, or returns a map or something that is not a map *)
DecodeOutcomes ==
    {Throws(MsgDecode)}
    \cup {Returns(x) : x \in {JsNull, JsNumber(5), JsArray(<<>>)}}
    \cup {Returns(x) : x \in RequestMaps}

NotParsed == [kind |-> "none"]

ParserIdle ==
    /\ urType = "none"
    /\ cborDecoded = Returns(JsUndefined)
    /\ scanResult = NotParsed

ParserInit ==
    /\ urType \in URTypes
    /\ cborDecoded \in DecodeOutcomes
    /\ scanResult = NotParsed

(* handleUR is called on the scanned UR *)
ParseUR ==
    /\ scanResult = NotParsed
    /\ scanResult' = HandleUR(urType, cborDecoded)
    /\ UNCHANGED <<urType, cborDecoded>>
    /\ UNCHANGED <<sessionVars, assemblerVars, scannerVars, keycardVars>>

ParserNext == ParseUR

-----------------------------------------------------------------------------
(***************************************************************************)
(* Part IV - the QR scanner, src/src/screens/QRScannerScreen.tsx           *)
(***************************************************************************)

(* Bounds of the scanner model *)
MaxParts == 2
MaxNavigations == 2

(* The URs shown to the camera: a single-part request, a request in        *)
(* MaxParts parts, a UR whose decoding fails, and a UR of another type     *)
URs == {"single", "multi", "corrupt", "psbt"}

PartCount(ur) == IF ur = "multi" THEN MaxParts ELSE 1
URTypeOf(ur) == IF ur = "psbt" THEN "crypto-psbt" ELSE "eth-sign-request"
MsgChecksum == "bad checksum"

(* What CBOR.decode does with the cbor of a UR *)
CborOf(ur) ==
    IF ur = "single"
    THEN Returns(RequestMap(<<Absent, Payload, JsNumber(1), Absent, Absent, Absent, Absent>>))
    ELSE Returns(RequestMap(<<JsBuffer(<<1, 2, 3, 4>>), Payload, JsNumber(4), JsNumber(1),
                              JsObject([name \in {"1"} |->
                                           JsArray(<<JsNumber(44), JsBoolean(TRUE)>>)]),
                              AddressBytes, JsString(Origin)>>))

(* codeStringValue of a scan event: its first characters, and the part of  *)
(* a UR it carries, if any                                                 *)
NoPart == [head |-> <<>>, ur |-> "none", seqNum |-> 0]

ScanValues ==
    {NoPart, [head |-> <<"h", "t", "t", "p">>, ur |-> "none", seqNum |-> 0],
     [head |-> <<"U", "r", ":">>, ur |-> "single", seqNum |-> 1]}
    \cup {[head |-> h, ur |-> ur, seqNum |-> n] :
            h \in {<<"u", "r", ":">>, <<"U", "R", ":">>},
            ur \in URs, n \in 1..1}
    \cup {[head |-> h, ur |-> "multi", seqNum |-> n] :
            h \in {<<"u", "r", ":">>, <<"U", "R", ":">>},
            n \in 1..MaxParts}

(* A comparison of the scheme prefix that is case-sensitive *)
SameCase(chars) == chars

(* String.prototype.toUpperCase on the letters the scan values use *)
UpperOf(c) ==
    CASE c = "u" -> "U" [] c = "r" -> "R" [] c = "h" -> "H"
      [] c = "t" -> "T" [] c = "p" -> "P" [] OTHER -> c

ToUpperCase(chars) == [i \in 1..Len(chars) |-> UpperOf(chars[i])]

StartsWith(chars, prefix) ==
    Len(chars) >= Len(prefix) /\ SubSeq(chars, 1, Len(prefix)) = prefix

(* URDecoder of @ngraveio/bc-ur, as the screen uses it (lines 73-100):     *)
(* parts of one UR are collected, parts of another UR are rejected; `last`  *)
(* is the string receivePart was last called with                          *)
NewURDecoder == [ur |-> "none", received |-> {}, last |-> NoPart]

ReceivePart(decoder, value) ==
    IF decoder.ur = "none"
    THEN [ur |-> value.ur, received |-> {value.seqNum}, last |-> value]
    ELSE IF decoder.ur = value.ur
    THEN [decoder EXCEPT !.received = @ \cup {value.seqNum}, !.last = value]
    ELSE [decoder EXCEPT !.last = value]

ExpectedPartCount(decoder) == IF decoder.ur = "none" THEN 0 ELSE PartCount(decoder.ur)
IsComplete(decoder) ==
    decoder.ur # "none" /\ decoder.received = 1..PartCount(decoder.ur)
IsSuccess(decoder) == decoder.ur # "corrupt"
EstimatedPercentComplete(decoder) ==
    <<Cardinality(decoder.received), ExpectedPartCount(decoder)>>

TransactionDetail(outcome) == [name |-> "TransactionDetail", params |-> [result |-> outcome]]

(* The branch of a complete decoder without `scannedRef.current = true` *)
CompleteScanNoLatch(decoder) ==
    /\ UNCHANGED scannedRef
    /\ navigations' = Append(navigations,
          TransactionDetail(IF IsSuccess(decoder)
                            THEN HandleUR(URTypeOf(decoder.ur), CborOf(decoder.ur))
                            ELSE [kind |-> "error", message |-> MsgChecksum]))
    /\ decoderRef' = Undefined
    /\ focused' = FALSE

(* The branch of a complete decoder (lines 89-101) *)
CompleteScan(decoder) ==
    /\ scannedRef' = TRUE
    /\ navigations' = Append(navigations,
          TransactionDetail(IF IsSuccess(decoder)
                            THEN HandleUR(URTypeOf(decoder.ur), CborOf(decoder.ur))
                            ELSE [kind |-> "error", message |-> MsgChecksum]))
    /\ decoderRef' = Undefined
    /\ focused' = FALSE

(* onCodeScanned from receivePart on (lines 77-101) *)
Received(decoder) ==
    /\ progress' = EstimatedPercentComplete(decoder)
    /\ frameInfo' = IF ExpectedPartCount(decoder) > 0
                    THEN <<Cardinality(decoder.received), ExpectedPartCount(decoder)>>
                    ELSE frameInfo
    /\ IF IsComplete(decoder)
       THEN CompleteScan(decoder)
       ELSE /\ decoderRef' = Defined(decoder)
            /\ UNCHANGED <<scannedRef, navigations, focused>>

(* onCodeScanned (lines 56-104) *)
OnCodeScanned(value) ==
    /\ scannedRef \/ Len(navigations) < MaxNavigations
    /\ IF \/ scannedRef
          \/ value.head = <<>>
          \/ ~StartsWith(ToUpperCase(value.head), <<"U", "R", ":">>)
       THEN UNCHANGED <<scannedRef, decoderRef, progress, frameInfo, navigations,
                        focused>>
       ELSE Received(ReceivePart(IF decoderRef = Undefined THEN NewURDecoder
                                 ELSE decoderRef[1], value))
    /\ lastScan' = [kind |-> "scan", value |-> value]
    /\ UNCHANGED <<sessionVars, assemblerVars, parserVars, keycardVars>>

(* The focus effect (lines 46-54), when the screen regains focus *)
Focus ==
    /\ ~focused
    /\ focused' = TRUE
    /\ scannedRef' = FALSE
    /\ progress' = <<0, 0>>
    /\ frameInfo' = <<>>
    /\ decoderRef' = Undefined
    /\ UNCHANGED navigations
    /\ lastScan' = [kind |-> "focus"]
    /\ UNCHANGED <<sessionVars, assemblerVars, parserVars, keycardVars>>

ScannerIdle ==
    /\ scannedRef = FALSE
    /\ decoderRef = Undefined
    /\ progress = <<0, 0>>
    /\ frameInfo = <<>>
    /\ navigations = <<>>
    /\ focused = FALSE
    /\ lastScan = [kind |-> "none"]

(* The screen after it was mounted and focused *)
ScannerInit ==
    /\ scannedRef = FALSE
    /\ decoderRef = Undefined
    /\ progress = <<0, 0>>
    /\ frameInfo = <<>>
    /\ navigations = <<>>
    /\ focused = TRUE
    /\ lastScan = [kind |-> "focus"]

ScannerNext ==
    \/ \E value \in ScanValues : OnCodeScanned(value)
    \/ Focus

-----------------------------------------------------------------------------
(***************************************************************************)
(* Part V - the Keycard screen, src/src/screens/KeycardScreen.tsx          *)
(***************************************************************************)

(* line 12 *)
PIN_LENGTH == 6

(* The keys of the pad (PAD_KEYS, lines 14-19): the blank key, backspace   *)
(* and the digits.  The digit pressed at a position of the entry is a      *)
(* digit of the card's PIN or "0".                                         *)
BlankKey == ""
Backspace == "backspace"
PinDigits == <<"1", "2", "3", "4", "5", "6">>

PAD_KEYS == {BlankKey, Backspace, "0"} \cup {PinDigits[i] : i \in 1..PIN_LENGTH}

(* The keys pressed after the digits `entered` *)
Pressed(entered) ==
    {BlankKey, Backspace, "0"}
    \cup (IF Len(entered) < PIN_LENGTH THEN {PinDigits[Len(entered) + 1]} ELSE {})

(* A backspace key that removes nothing *)
DropNothing(p) == p

(* p.slice(0, -1) (line 104) *)
DropLast(p) == IF p = <<>> THEN <<>> ELSE SubSeq(p, 1, Len(p) - 1)

(* The string of a sequence of characters: `pin + key`, repeated *)
RECURSIVE PinText(_)
PinText(chars) == IF chars = <<>> THEN "" ELSE Head(chars) \o PinText(Tail(chars))

(* Buffer.from(signData, 'hex') (line 22): pairs of hex digits are decoded *)
(* up to the first pair that is not hex                                    *)
RECURSIVE BufferFromHex(_)
BufferFromHex(str) ==
    IF Len(str) < 2 \/ ~IsHexDigit(str[1]) \/ ~IsHexDigit(str[2]) THEN <<>>
    ELSE <<16 * HexValue(str[1]) + HexValue(str[2])>>
         \o BufferFromHex(SubSeq(str, 3, Len(str)))

(* keccak_256 of @noble/hashes (line 24): the Keccak-256 digests of the    *)
(* payloads of the model                                                   *)
Keccak_256(data) ==
    CASE data = <<170, 187, 204, 221>> ->
           <<64, 238, 208, 50, 90, 18, 198, 198, 175, 141, 178, 234, 5, 69, 11, 254,
             33, 214, 52, 59, 111, 233, 85, 191, 246, 80, 69, 182, 125, 157, 95, 230>>
      [] data = Fill(171, 32) ->
           <<125, 58, 96, 139, 184, 80, 244, 124, 45, 119, 214, 190, 115, 184, 249, 60,
             148, 168, 2, 100, 183, 187, 60, 197, 199, 210, 251, 84, 208, 126, 246, 185>>

(* prepareHash digesting legacy transactions only *)
PrepareHashOnlyLegacy(signData, dataType) ==
    IF dataType = Defined(1) THEN Keccak_256(BufferFromHex(signData))
    ELSE BufferFromHex(signData)

(* prepareHash (lines 21-27) *)
PrepareHash(signData, dataType) ==
    IF dataType = Defined(1) \/ dataType = Defined(4)
    THEN Keccak_256(BufferFromHex(signData))
    ELSE BufferFromHex(signData)

(* The payloads of the requests the screen is opened with: four bytes, and *)
(* 32 bytes                                                                *)
SignDatas == {<<"a", "a", "b", "b", "c", "c", "d", "d">>, ToHex(Fill(171, 32))}

NoKey == "none"

(* The mount effects (lines 38-60 and 92-96) with the hash of line 42:     *)
(* the hash is stored in hashRef, the closure that signs it is given to    *)
(* execute, which asks for the PIN, and the digit buffer is emptied        *)
MountWith(signData, dataType, hash) ==
    /\ params' = Defined([operation |-> "sign", signData |-> signData,
                          dataType |-> dataType, chainId |-> Defined(Num(1)),
                          requestId |-> Undefined])
    /\ hashRef' = Defined(hash)
    /\ closureHash' = hash
    /\ ExecuteCall("sign", [requiresPin |-> Undefined], TRUE)
    /\ padPin' = <<>>
    /\ lastKey' = NoKey
    /\ UNCHANGED <<assemblerVars, parserVars, scannerVars>>

Mount(signData, dataType) ==
    /\ params = Undefined
    /\ MountWith(signData, dataType, PrepareHash(signData, dataType))

(* handleKey (lines 98-115), of the pad that is shown in phase pin_entry   *)
(* (line 124)                                                              *)
HandleKey(key, startOk) ==
    /\ params # Undefined
    /\ phase = "pin_entry"
    /\ key \in Pressed(padPin)
    /\ lastKey' = key
    /\ IF key = BlankKey
       THEN UNCHANGED <<padPin, sessionVars>>
       ELSE IF key = Backspace
       THEN padPin' = DropLast(padPin) /\ UNCHANGED sessionVars
       ELSE IF Len(padPin) < PIN_LENGTH
       THEN IF Len(Append(padPin, key)) = PIN_LENGTH
            THEN /\ SubmitPinCall(PinText(Append(padPin, key)), startOk)
                 /\ padPin' = <<>>
            ELSE padPin' = Append(padPin, key) /\ UNCHANGED sessionVars
       ELSE UNCHANGED <<padPin, sessionVars>>
    /\ UNCHANGED <<params, hashRef, closureHash>>
    /\ UNCHANGED <<assemblerVars, parserVars, scannerVars>>

(* The effect on phase and result (lines 62-90): once the session is done  *)
(* with a result, buildEthSignatureUR is given the card's response, the    *)
(* hash of hashRef and the parameters of the request                       *)
DoneEffect ==
    /\ phase = "done" /\ result # NoResult
    /\ params # Undefined /\ params[1].operation = "sign"
    /\ hashRef # Undefined
    /\ urResult = NotRun
    /\ args' = [signRespDataHex |-> ToHex(ResponseBytes(cardSignature)),
                hash |-> hashRef[1],
                dataType |-> params[1].dataType,
                chainId |-> params[1].chainId,
                requestId |-> params[1].requestId]
    /\ ShowOutcome(BuildEthSignatureUR(args'.signRespDataHex, args'.hash,
                                       args'.dataType, args'.chainId,
                                       args'.requestId))
    /\ UNCHANGED <<cardSignature, curve, scanned>>
    /\ UNCHANGED <<sessionVars, parserVars, scannerVars, keycardVars>>

(* The card is tapped once *)
KeycardTap ==
    /\ taps = 0
    /\ Connected

KeycardIdle ==
    /\ params = Undefined
    /\ padPin = <<>>
    /\ hashRef = Undefined
    /\ closureHash = <<>>
    /\ lastKey = NoKey

(* The card that will answer, before the screen is mounted *)
KeycardInit ==
    /\ cardSignature = BaseSignature
    /\ curve \in Curves(cardSignature.key)
    /\ args = <<>>
    /\ urResult = NotRun
    /\ consoleLog = <<>>
    /\ scanned = NotScanned
    /\ route = KeycardRoute
    /\ consoleError = <<>>
    /\ KeycardIdle

(* The screen is mounted for a request, the PIN pad is used, the card is   *)
(* tapped once and every promise settles either way                        *)
KeycardNext ==
    \/ \E signData \in SignDatas, dataType \in DataTypes : Mount(signData, dataType)
    \/ \E key \in PAD_KEYS, ok \in BOOLEAN : HandleKey(key, ok)
    \/ StartSettles
    \/ KeycardTap
    \/ \E h \in Handlers, o \in {"ok", "badsw", "noinfo", "throw"} : SelectResponse(h, o)
    \/ \E h \in Handlers, o \in {"resolve", "throw"} : LoadResponse(h, o)
    \/ \E h \in Handlers, ok \in BOOLEAN : PairResponse(h, ok)
    \/ \E h \in Handlers, ok \in BOOLEAN : SaveResponse(h, ok)
    \/ \E h \in Handlers, ok \in BOOLEAN : OpenResponse(h, ok)
    \/ \E h \in Handlers, o \in {"ok", "wrong", "throw"} : VerifyResponse(h, o)
    \/ \E h \in Handlers, ok \in BOOLEAN : OperationSettles(h, ok)
    \/ DoneEffect

-----------------------------------------------------------------------------
(* The specifications                                                      *)

vars == <<sessionVars, assemblerVars, parserVars, scannerVars, keycardVars>>

Init == SessionInit /\ AssemblerIdle /\ ParserIdle /\ ScannerIdle /\ KeycardIdle

Next == SessionNext

Spec == Init /\ [][Next]_vars

(* The session after a signing operation succeeded: execute(sign),         *)
(* submitPin, one tap, the exchanges of its handler and the closure, all   *)
(* successful                                                              *)
SessionSigned ==
    /\ phase = "done"
    /\ status = StatusProcessing
    /\ result = ReturnValue("sign")
    /\ cmdSetRef = 1
    /\ pinRef = EmptyPin
    /\ operationRef = "sign"
    /\ requiresPinRef = TRUE
    /\ operationRunningRef = FALSE
    /\ listening = TRUE
    /\ startPending = <<>>
    /\ stored = {PairingKey(InstanceUID)}
    /\ taps = 1
    /\ hpc = [h \in Handlers |-> IF h = 1 THEN "done" ELSE "new"]
    /\ cmdSets = [h \in Handlers |->
                    IF h = 1
                    THEN [selected |-> TRUE, paired |-> TRUE, secure |-> TRUE,
                          pinOK |-> TRUE]
                    ELSE FreshCmdSet]
    /\ sentPin = [h \in Handlers |-> EmptyPin]
    /\ opArg = [h \in Handlers |-> NoArg]
    /\ apiDuringOp = FALSE
    /\ event = [call |-> "response"]

InitAssembler ==
    SessionSigned /\ AssemblerInit /\ ParserIdle /\ ScannerIdle /\ KeycardIdle

NextAssembler == AssemblerNext

SpecAssembler == InitAssembler /\ [][NextAssembler]_vars

(* handleUR on every input *)
InitParser == SessionInit /\ AssemblerIdle /\ ParserInit /\ ScannerIdle /\ KeycardIdle

NextParser == ParserNext

SpecParser == InitParser /\ [][NextParser]_vars

(* The scanner screen *)
InitScanner == SessionInit /\ AssemblerIdle /\ ParserIdle /\ ScannerInit /\ KeycardIdle

NextScanner == ScannerNext

SpecScanner == InitScanner /\ [][NextScanner]_vars

(* The retry scenario: execute(sign), and submitPin of the card's PIN when *)
(* one is required, started NFC; the card was tapped once and the handler  *)
(* of that tap is suspended at the await pc; then, in phase nfc, the       *)
(* disconnected or the timeout event ev was handled.                       *)
Progress(pc, requiresPin) ==
    [selected |-> pc \notin {"select"},
     paired   |-> pc \in {"save", "open", "verify", "op"},
     secure   |-> pc \in {"verify", "op"},
     pinOK    |-> pc = "op" /\ requiresPin]

AwaitingRetry(pc, ev, requiresPin, keys) ==
    /\ phase = "nfc"
    /\ status = (IF ev = "disconnected" THEN StatusRemoved ELSE StatusTimedOut)
    /\ result = NoResult
    /\ cmdSetRef = (IF ev = "disconnected" THEN NoChannel ELSE 1)
    /\ pinRef = (IF requiresPin /\ pc # "op" THEN CardPin ELSE EmptyPin)
    /\ operationRef = "sign"
    /\ requiresPinRef = requiresPin
    /\ operationRunningRef = (pc = "op")
    /\ listening = TRUE
    /\ startPending = <<>>
    /\ stored = keys
    /\ taps = 1
    /\ hpc = [h \in Handlers |-> IF h = 1 THEN pc ELSE "new"]
    /\ cmdSets = [h \in Handlers |->
                    IF h = 1 THEN Progress(pc, requiresPin) ELSE FreshCmdSet]
    /\ sentPin = [h \in Handlers |->
                    IF h = 1 /\ pc = "verify" THEN CardPin ELSE EmptyPin]
    /\ opArg = [h \in Handlers |->
                    IF h = 1 /\ pc = "op"
                    THEN [op |-> "sign", chan |-> 1] ELSE NoArg]
    /\ apiDuringOp = FALSE
    /\ event = [call |-> ev]

RetryInit ==
    \E pc \in Awaits, ev \in {"disconnected", "timeout"}, requiresPin \in BOOLEAN,
       keys \in {{}, {PairingKey(InstanceUID)}} :
        /\ pc = "verify" => requiresPin
        /\ pc \in {"open", "verify", "op"} => keys # {}
        /\ AwaitingRetry(pc, ev, requiresPin, keys)

(* The handler that was suspended when the event arrived; every later one  *)
(* belongs to a retry tap                                                  *)
Suspended == 1

(* The card is tapped again once no handler is suspended any more *)
RetryTap ==
    /\ \A h \in Handlers : hpc[h] \notin Awaits
    /\ Connected

(* After the event nothing is called; the exchange the suspended handler   *)
(* waits for settles either way, and then the card is tapped again; for    *)
(* the handlers of retry taps every exchange and the closure succeed,      *)
(* except that the card rejects a PIN that is not its own.                 *)
RetryOutcomes(h, all, good) == IF h = Suspended THEN all ELSE good

RetryNext ==
    \/ RetryTap
    \/ \E h \in Handlers :
          \E o \in RetryOutcomes(h, {"ok", "badsw", "noinfo", "throw"}, {"ok"}) :
             SelectResponse(h, o)
    \/ \E h \in Handlers, o \in {"resolve", "throw"} : LoadResponse(h, o)
    \/ \E h \in Handlers :
          \E ok \in RetryOutcomes(h, BOOLEAN, {TRUE}) : PairResponse(h, ok)
    \/ \E h \in Handlers :
          \E ok \in RetryOutcomes(h, BOOLEAN, {TRUE}) : SaveResponse(h, ok)
    \/ \E h \in Handlers :
          \E ok \in RetryOutcomes(h, BOOLEAN, {TRUE}) : OpenResponse(h, ok)
    \/ \E h \in Handlers :
          \E o \in RetryOutcomes(h, {"ok", "wrong", "throw"}, {"ok", "wrong"}) :
             VerifyResponse(h, o)
    \/ \E h \in Handlers :
          \E ok \in RetryOutcomes(h, BOOLEAN, {TRUE}) : OperationSettles(h, ok)

InitRetry == RetryInit /\ AssemblerIdle /\ ParserIdle /\ ScannerIdle /\ KeycardIdle

NextRetry == RetryNext

(* Every pending promise settles and the card is tapped again *)
SpecRetry == InitRetry /\ [][NextRetry]_vars /\ WF_vars(NextRetry)

(* The Keycard screen from its mount on *)
InitKeycard == SessionInit /\ KeycardInit /\ ParserIdle /\ ScannerIdle

NextKeycard == KeycardNext

SpecKeycard == InitKeycard /\ [][NextKeycard]_vars

-----------------------------------------------------------------------------
(* Claims about the card session *)

(* A channel on which select, pairing and the secure channel succeeded,    *)
(* and PIN verification too when the operation requires a PIN              *)
Authenticated(c, needPin) ==
    /\ c # NoChannel
    /\ cmdSets'[c].selected /\ cmdSets'[c].paired /\ cmdSets'[c].secure
    /\ needPin => cmdSets'[c].pinOK

Invokes(h) == hpc[h] # "op" /\ hpc'[h] = "op"

(* C1: every invocation of the operation closure is given a command        *)
(* channel on which applet selection, pairing, secure-channel              *)
(* establishment and (when the operation requires a PIN) PIN verification  *)
(* have all succeeded.                                                     *)
C1_ClosureGetsAuthenticatedChannel ==
    [][\A h \in Handlers :
          Invokes(h) => Authenticated(opArg'[h].chan, requiresPinRef)]_vars

(* What each await of a handler has behind it *)
HandlerProgress(h) ==
    /\ hpc[h] \in {"new", "select"} => cmdSets[h] = FreshCmdSet
    /\ hpc[h] \in {"load", "pair"} =>
          cmdSets[h] = [FreshCmdSet EXCEPT !.selected = TRUE]
    /\ hpc[h] \in {"save", "open"} =>
          cmdSets[h] = [FreshCmdSet EXCEPT !.selected = TRUE, !.paired = TRUE]
    /\ hpc[h] \in {"verify", "op", "done", "skipped"} =>
          cmdSets[h].selected /\ cmdSets[h].paired /\ cmdSets[h].secure

(* The steps a handler may take: the exchange it issues next, and what     *)
(* the exchange before it must have achieved                               *)
HandlerStep(h) ==
    \/ hpc'[h] = hpc[h]
    \/ hpc[h] = "new" /\ hpc'[h] = "select"
    \/ hpc[h] = "select" /\ hpc'[h] = "load" /\ cmdSets'[h].selected
    \/ hpc[h] = "load" /\ hpc'[h] = "open" /\ stored # {} /\ cmdSets'[h].paired
    \/ hpc[h] = "load" /\ hpc'[h] = "pair" /\ ~cmdSets'[h].paired
    \/ hpc[h] = "pair" /\ hpc'[h] = "save" /\ cmdSets'[h].paired
    \/ hpc[h] = "save" /\ hpc'[h] = "open" /\ stored' # {}
    \/ hpc[h] = "open" /\ hpc'[h] = "verify" /\ cmdSets'[h].secure /\ requiresPinRef
    \/ hpc[h] = "open" /\ hpc'[h] = "op" /\ cmdSets'[h].secure /\ ~requiresPinRef
    \/ hpc[h] = "verify" /\ hpc'[h] = "op" /\ cmdSets'[h].pinOK
    \/ hpc[h] \in Awaits /\ hpc'[h] = "failed"
    \/ hpc[h] = "op" /\ hpc'[h] = "done"
    \/ hpc[h] \in {"open", "verify"} /\ hpc'[h] = "skipped" /\ cmdSets'[h].secure

(* C2: one handler issues its exchanges in the order select, pairing       *)
(* (load, else pair and save), secure channel, PIN verification (only      *)
(* when a PIN is required), closure; a step is issued only after every     *)
(* earlier step of the handler succeeded and nothing is issued after a     *)
(* failed step.                                                            *)
C2_HandlerStepsInOrder ==
    /\ [](\A h \in Handlers : HandlerProgress(h))
    /\ [][\A h \in Handlers : HandlerStep(h)]_vars

(* A handler issued every step, PIN verification included, and invoked    *)
(* the closure on its own channel                                          *)
C2_Witness ==
    \E h \in Handlers :
        /\ hpc[h] = "op" /\ cmdSets[h].pinOK
        /\ stored # {} /\ listening /\ opArg[h].chan = h

(* e.message of the failures of each step *)
FailureMessages(step) ==
    CASE step = "select" -> {MsgSelectSW, MsgNoAppInfo, MsgTransport}
      [] step = "pair" -> {MsgPair}
      [] step = "save" -> {MsgSave}
      [] step = "open" -> {MsgOpen}
      [] step = "verify" -> {MsgWrongPin, MsgTransport}
      [] step = "op" -> {MsgOperation}
      [] OTHER -> {}

(* C3: a resolved closure stores its value in result and sets Done; a      *)
(* failed step clears the channel reference and sets Error with the        *)
(* failure in the status; result is stored on no other path.               *)
C3_ConnectedOutcome ==
    [][/\ \A h \in Handlers :
            /\ (hpc[h] = "op" /\ hpc'[h] = "done") =>
                  (result' = ReturnValue(opArg[h].op) /\ phase' = "done")
            /\ (hpc[h] \in Awaits /\ hpc'[h] = "failed") =>
                  /\ cmdSetRef' = NoChannel
                  /\ phase' = "error"
                  /\ \E m \in FailureMessages(hpc[h]) : status' = StatusError(m)
       /\ (result' # result /\ result' # NoResult) =>
            \E h \in Handlers : hpc[h] = "op" /\ hpc'[h] = "done"]_vars

(* One closure resolved and its result is stored; a later handler failed   *)
(* on a transport error after cancel() had requested the stop              *)
C3_Witness ==
    \E h1, h2 \in Handlers :
        /\ hpc[h1] = "done" /\ result # NoResult
        /\ hpc[h2] = "failed" /\ ~listening
        /\ phase = "error" /\ status = StatusError(MsgTransport)
        /\ cmdSetRef = NoChannel

C5_PinClearedAfterVerify ==
    [][\A h \in Handlers :
          (hpc[h] = "verify" /\ hpc'[h] # "verify") => pinRef' = EmptyPin]_vars

(* Handler h failed at its PIN verification *)
PinAttemptFailed(h) ==
    hpc[h] = "failed" /\ cmdSets[h].secure /\ ~cmdSets[h].pinOK

(* C6: once the phase is Error after a failed PIN verification, no         *)
(* handler sends another PIN verification while the phase is still Error   *)
(* (no reset, execute, cancel or submitPin call in between).               *)
C6_NoPinRetryInError ==
    [][(phase = "error" /\ \E h0 \in Handlers : PinAttemptFailed(h0)) =>
          \A h \in Handlers : ~(hpc[h] = "open" /\ hpc'[h] = "verify")]_vars

-----------------------------------------------------------------------------
(* Claims about the API calls and the hardware events *)

(* The step is the call or event named *)
Called(call) == event'.call = call

(* What cancel() and reset() have in common: the stop request, the PIN     *)
(* buffer, the pending operation, the phase and the status                 *)
CancelEffect ==
    /\ listening' = FALSE
    /\ pinRef' = EmptyPin
    /\ operationRef' = NoOperation
    /\ phase' = "idle"
    /\ status' = StatusEmpty

(* What cancel() and reset() both leave alone, and the running flag *)
CancelFrame ==
    /\ operationRunningRef' = FALSE
    /\ UNCHANGED <<cmdSetRef, requiresPinRef, startPending, stored, taps, hpc,
                   cmdSets, sentPin, opArg>>

(* A startNFC request was issued *)
ListeningRequested == Len(startPending') = Len(startPending) + 1

(* C12: from every phase cancel() requests the stop of the hardware,       *)
(* empties the PIN buffer, discards the pending operation and sets phase   *)
(* Idle with an empty status; the stored result is left unchanged.         *)
C12_CancelEffect ==
    [][Called("cancel") => (CancelEffect /\ result' = result)]_vars

(* cancel() was called after a closure had resolved: the result is kept *)
C12_Witness ==
    /\ event.call = "cancel"
    /\ result # NoResult /\ \E h \in Handlers : hpc[h] = "done"
    /\ phase = "idle" /\ status = StatusEmpty /\ ~listening

(* C13: from every phase reset() has exactly the effect of cancel() and    *)
(* additionally clears the stored result.                                  *)
C13_ResetIsCancelPlusResult ==
    [][/\ (Called("cancel") \/ Called("reset")) => (CancelEffect /\ CancelFrame)
       /\ Called("reset") => result' = NoResult]_vars

(* reset() was called after a closure had resolved and stored its result *)
C13_Witness ==
    /\ event.call = "reset"
    /\ result = NoResult /\ \E h \in Handlers : hpc[h] = "done"
    /\ phase = "idle" /\ status = StatusEmpty /\ ~listening

(* C14: execute(op, {requiresPin}) stores op; with requiresPin true or     *)
(* omitted the phase becomes PinEntry and listening is not requested;      *)
(* with requiresPin false the phase becomes NFC, the status 'Tap your      *)
(* Keycard' and listening is requested.                                    *)
C14_ExecuteEffect ==
    [][Called("execute") =>
          /\ operationRef' = event'.op
          /\ IF event'.options.requiresPin \in {Undefined, Defined(TRUE)}
             THEN /\ phase' = "pin_entry"
                  /\ UNCHANGED <<listening, startPending>>
             ELSE /\ phase' = "nfc"
                  /\ status' = StatusTap
                  /\ ListeningRequested]_vars

(* execute was called without requiresPin while the hardware was idle *)
C14_Witness ==
    /\ event.call = "execute" /\ event.options.requiresPin = Undefined
    /\ phase = "pin_entry" /\ operationRef = "sign"
    /\ ~listening /\ startPending = <<>>

(* C15: submitPin(pin) buffers the PIN, sets phase NFC with status 'Tap    *)
(* your Keycard' and requests listening, from whatever phase it is called  *)
(* in.                                                                     *)
C15_SubmitPinEffect ==
    [][Called("submitPin") =>
          /\ pinRef' = event'.pin
          /\ phase' = "nfc"
          /\ status' = StatusTap
          /\ ListeningRequested]_vars

(* submitPin was called with no operation pending, so not from PinEntry *)
C15_Witness ==
    /\ event.call = "submitPin"
    /\ operationRef = NoOperation
    /\ phase = "nfc" /\ pinRef = event.pin /\ Len(startPending) = 1

(* C16: a disconnected event always clears the channel reference and       *)
(* never changes phase or result; it sets the status to 'Card removed -    *)
(* tap again' exactly when the phase is NFC.                               *)
C16_DisconnectedEffect ==
    [][Called("disconnected") =>
          /\ cmdSetRef' = NoChannel
          /\ UNCHANGED <<phase, result>>
          /\ status' = IF phase = "nfc" THEN StatusRemoved ELSE status]_vars

(* The card was removed in phase Error: the error status is still shown *)
C16_Witness ==
    /\ event.call = "disconnected"
    /\ phase = "error" /\ status = StatusError(MsgWrongPin)
    /\ cmdSetRef = NoChannel

(* C17: a user-cancelled event sets the phase to Idle when the phase is    *)
(* NFC and leaves the phase unchanged in every other phase.                *)
C17_UserCancelledEffect ==
    [][Called("userCancelled") =>
          phase' = IF phase = "nfc" THEN "idle" ELSE phase]_vars

(* The user dismissed the NFC prompt while an operation was pending *)
C17_Witness ==
    /\ event.call = "userCancelled"
    /\ phase = "idle" /\ operationRef # NoOperation /\ status = StatusTap

(* C18: a timeout event never changes the phase; its only effect is to set *)
(* the status to 'Timed out - tap again'.                                  *)
C18_TimeoutEffect ==
    [][Called("timeout") =>
          /\ status' = StatusTimedOut
          /\ UNCHANGED <<phase, result, cmdSetRef, pinRef, operationRef,
                         requiresPinRef, operationRunningRef, listening,
                         startPending, stored, taps, hpc, cmdSets, sentPin,
                         opArg>>]_vars

(* The NFC session timed out while the session waited for a tap *)
C18_Witness ==
    /\ event.call = "timeout"
    /\ phase = "nfc" /\ listening /\ status = StatusTimedOut

(* C19: disconnected, user-cancelled and timeout events in a phase other   *)
(* than NFC change neither phase nor status nor result.                    *)
C19_EventsOutsideNfcAreNoOps ==
    [][((Called("disconnected") \/ Called("userCancelled") \/ Called("timeout"))
          /\ phase # "nfc") => UNCHANGED <<phase, status, result>>]_vars

(* C19, as the code has it: outside NFC a disconnected and a               *)
(* user-cancelled event change neither phase nor status nor result; a      *)
(* timeout event changes neither phase nor result but sets the status to   *)
(* 'Timed out - tap again', whatever the status was.                       *)
C19_OutsideNfcOnlyTimeoutSetsStatus ==
    [][phase # "nfc" =>
          /\ (Called("disconnected") \/ Called("userCancelled")) =>
                UNCHANGED <<phase, status, result>>
          /\ Called("timeout") =>
                (UNCHANGED <<phase, result>> /\ status' = StatusTimedOut)]_vars

(* A timeout in phase Error, after a handler had failed: the status no     *)
(* longer shows the error                                                  *)
C19_Witness ==
    /\ event.call = "timeout"
    /\ phase = "error" /\ \E h \in Handlers : hpc[h] = "failed"
    /\ status = StatusTimedOut

(* C20: the channel reference is absent whenever the phase is Done or      *)
(* Error, and right after every disconnected event.                        *)
C20_ChannelAbsentWhenTerminal ==
    /\ [](phase \in {"done", "error"} => cmdSetRef = NoChannel)
    /\ [][Called("disconnected") => cmdSetRef' = NoChannel]_vars

(* C21: the phase becomes Error only from PinEntry or NFC, becomes Done    *)
(* only from NFC, and cancel() and reset() lead to Idle from every phase.  *)
C21_PhaseGraph ==
    [][/\ (phase' = "error" /\ phase # "error") => phase \in {"pin_entry", "nfc"}
       /\ (phase' = "done" /\ phase # "done") => phase = "nfc"
       /\ (Called("cancel") \/ Called("reset")) => phase' = "idle"]_vars

(* The awaits of a handler that are command/response exchanges with the    *)
(* card; "load" and "save" wait for the storage                            *)
CardExchanges == {"select", "pair", "open", "verify", "op"}

Outstanding == {h \in Handlers : hpc[h] \in CardExchanges}

(* C22: after a disconnected or timeout event in phase NFC, when the card  *)
(* is tapped again and the exchanges and the closure of the retry succeed, *)
(* the session eventually reaches Done with the closure's result, with no  *)
(* new execute or submitPin call.                                          *)
C22_RetryReachesDone == <>(phase = "done" /\ result = ReturnValue("sign"))

(* C23: at most one exchange with the card is outstanding at any time,     *)
(* over all connected handlers and the operation closure.                  *)
C23_OneExchangeOutstanding == Cardinality(Outstanding) <= 1

(* C24: a handler pairs exactly when loading the pairing stored for the    *)
(* card's instance UID yielded nothing, a failed load included, which      *)
(* never fails the handler; the new pairing is stored under                *)
(* 'pairing_' + UID before the secure channel is opened; a pairing that    *)
(* was found is reused and the handler goes on to open the channel with    *)
(* neither a pairing handshake nor a save.                                 *)
C24_PairOnlyWhenNothingLoaded ==
    [][\A h \in Handlers :
          /\ (hpc[h] = "load" /\ hpc'[h] # "load") =>
                IF <<"pairing_", InstanceUID>> \in stored /\ event'.load # "throw"
                THEN /\ hpc'[h] = "open"
                     /\ cmdSets'[h].paired
                     /\ stored' = stored
                ELSE /\ hpc'[h] = "pair"
                     /\ ~cmdSets'[h].paired
          /\ (hpc'[h] = "pair" /\ hpc[h] # "pair") => hpc[h] = "load"
          /\ (hpc'[h] = "save" /\ hpc[h] # "save") => hpc[h] = "pair"
          /\ (hpc'[h] = "open" /\ hpc[h] # "open") =>
                /\ hpc[h] \in {"load", "save"}
                /\ <<"pairing_", InstanceUID>> \in stored']_vars

(* A pairing is stored for the card, the load of it failed, and the        *)
(* handler is pairing again                                                *)
C24_Witness ==
    \E h \in Handlers :
        /\ event = [call |-> "response", load |-> "throw"]
        /\ PairingKey(InstanceUID) \in stored
        /\ hpc[h] = "pair"

(* Handler h sends cmdSet.verifyPIN in this step *)
VerifySent(h) == hpc[h] = "open" /\ hpc'[h] = "verify"

(* C35: a PIN verification is sent to the card only while the phase is     *)
(* NFC, only for a pending operation that requires a PIN, and only with    *)
(* the non-empty PIN held in the buffer since the last submitPin: never    *)
(* in Idle, PinEntry, Done or Error, and never an empty PIN.               *)
C35_VerifyOnlyInNfcWithPin ==
    [][\A h \in Handlers :
         VerifySent(h) =>
            /\ phase = "nfc"
            /\ operationRef # NoOperation
            /\ requiresPinRef
            /\ sentPin'[h] \in Pins
            /\ sentPin'[h] = pinRef]_vars

(* C36: after cancel() or reset() the phase stays Idle, and after reset()  *)
(* the result stays null, until the next execute or submitPin call: the    *)
(* step that follows cancel() or reset() leaves them so unless it is one   *)
(* of these calls, also when it is a settling promise.                     *)
C36_IdleUntilNextCall ==
    [][(event.call \in {"cancel", "reset"}
          /\ ~Called("execute") /\ ~Called("submitPin")) =>
            /\ phase' = "idle"
            /\ event.call = "reset" => result' = NoResult]_vars

(* C37: at most one invocation of an operation closure is in flight, and   *)
(* operationRunningRef is true exactly while one is in flight.             *)
C37_OneInvocationInFlight ==
    /\ Cardinality(InFlight) <= 1
    /\ operationRunningRef <=> InFlight # {}

(* C38: whenever the phase is Idle the PIN buffer is empty and no          *)
(* operation is pending.                                                   *)
C38_IdleHoldsNothing ==
    phase = "idle" => (pinRef = EmptyPin /\ operationRef = NoOperation)

(* The startNFC promise that settles in this step was rejected *)
StartFailed ==
    /\ startPending # <<>>
    /\ startPending' = Tail(startPending)
    /\ ~Head(startPending)

(* C39: when the startNFC request of execute or submitPin fails, the phase *)
(* becomes Error with status 'Failed to start NFC: ' and the cause; the    *)
(* session is not left in NFC.                                             *)
C39_FailedStartIsError ==
    [][StartFailed =>
          /\ phase' = "error"
          /\ status' = <<"Failed to start NFC: ", "NFC unavailable">>]_vars

(* The start request of submitPin failed while the session waited in NFC *)
C39_Witness ==
    /\ event.call = "response"
    /\ phase = "error"
    /\ status = <<"Failed to start NFC: ", "NFC unavailable">>
    /\ pinRef \in Pins
    /\ ~listening
    /\ taps = 0

-----------------------------------------------------------------------------
(* Claims about the signature assembler *)

(* What buildEthSignatureUR logged under a tag *)
Logged(tag) ==
    consoleLog[CHOOSE i \in 1..Len(consoleLog) : consoleLog[i].tag = tag].value

(* The recovery ids for which the curve yields the card's compressed key *)
MatchingRecIds == {i \in {0, 1} : curve[i + 1] = cardSignature.key.compressed}

(* The chain id as a number, an absent one counting as 0 *)
ChainIdOrZero == IF args.chainId = Undefined THEN [hi |-> 0, lo |-> 0] ELSE args.chainId[1]

(* C7: for every recovery id, chain id and data type the assembler's v is  *)
(* 35 + 2*chainId + recoveryId for dataType 1 (an absent chainId counting  *)
(* as 0), recoveryId for dataType 4, and 27 + recoveryId for dataType 2,   *)
(* 3, absent or any other value; a one-byte v is the last byte of the      *)
(* signature the wallet decodes.                                           *)
C7_RecoveryByte ==
    urResult.kind = "return" =>
        LET recId == Logged("recId")
            v == Logged("v")
            low == 35 + 2 * ChainIdOrZero.lo + recId
        IN  /\ recId \in {0, 1}
            /\ args.dataType = <<1>> =>
                  /\ v.lo = low % 65536
                  /\ v.hi = 2 * ChainIdOrZero.hi + (low \div 65536)
            /\ args.dataType = <<4>> => (v.hi = 0 /\ v.lo = recId)
            /\ args.dataType \notin {<<1>>, <<4>>} => (v.hi = 0 /\ v.lo = 27 + recId)
            /\ (scanned # NotScanned /\ v.hi = 0 /\ v.lo <= 255) =>
                  /\ scanned.ok
                  /\ scanned.map[2].bytes[Len(scanned.map[2].bytes)] = v.lo

(* A legacy transaction on chain 11155111 assembled with recovery id 1 *)
C7_Witness ==
    /\ urResult.kind = "return"
    /\ args.dataType = <<1>>
    /\ args.chainId = <<[hi |-> 170, lo |-> 13991]>>
    /\ Logged("recId") = 1
    /\ Logged("v") = [hi |-> 340, lo |-> 28018]

RECURSIVE StripZeros(_)
StripZeros(bytes) ==
    IF Len(bytes) > 1 /\ bytes[1] = 0 THEN StripZeros(Tail(bytes)) ELSE bytes

(* The bytes of a number, big-endian *)
BigEndian(n) ==
    StripZeros(<<n.hi \div 65536, (n.hi \div 256) % 256, n.hi % 256,
                 n.lo \div 256, n.lo % 256>>)

(* A non-empty request identifier was supplied *)
HasRequestId == args.requestId # Undefined /\ args.requestId[1] # <<>>

(* C9: the map the wallet decodes holds under key 2 the 32 bytes of r,     *)
(* the 32 bytes of s and the bytes of v (65 bytes when v fits one byte),   *)
(* under key 3 the text 'GapSign', and under key 1 the request identifier  *)
(* bytes exactly when a non-empty identifier was supplied; it has 3        *)
(* entries then and 2 otherwise.                                           *)
C9_ResponseRoundTrip ==
    scanned # NotScanned =>
        /\ scanned.ok
        /\ scanned.map[2] =
              [major |-> 2,
               bytes |-> cardSignature.r \o cardSignature.s \o BigEndian(Logged("v"))]
        /\ (Logged("v").hi = 0 /\ Logged("v").lo <= 255) =>
              Len(scanned.map[2].bytes) = 65
        /\ scanned.map[3] = [major |-> 3, bytes |-> <<71, 97, 112, 83, 105, 103, 110>>]
        /\ IF HasRequestId
           THEN /\ scanned.size = 3
                /\ DOMAIN scanned.map = {1, 2, 3}
                /\ scanned.map[1] =
                      [major |-> 6, tag |-> 37,
                       item |-> [major |-> 2, bytes |-> RequestIdBytes]]
           ELSE /\ scanned.size = 2
                /\ DOMAIN scanned.map = {2, 3}

(* The bytes are a signature template framed as the card frames it *)
MatchesTagStructure(bytes) ==
    \E key \in CardKeys, r \in ScalarsR, s \in ScalarsS :
        bytes = BuildSignatureTLV(key.raw, r, s)

(* C10: for a response that does not have the tag structure A0 { 80, 30 {  *)
(* 02, 02 } } the assembler throws and returns nothing: no UR, and no r    *)
(* or s was taken from the bytes.                                          *)
C10_MalformedTLVFails ==
    (urResult # NotRun /\ ~MatchesTagStructure(ResponseBytes(cardSignature))) =>
        /\ urResult.kind = "throw"
        /\ DOMAIN urResult = {"kind", "message"}
        /\ consoleLog = <<>>
        /\ scanned = NotScanned

(* A response whose last tag, that of s, is wrong was rejected *)
C10_Witness ==
    /\ urResult.kind = "throw"
    /\ cardSignature.shape = "tagS"
    /\ curve[1] = cardSignature.key.compressed

-----------------------------------------------------------------------------
(* Claims about the signing screen *)

(* The operator is shown an error: the NFC sheet is visible in phase error *)
(* and shows the status                                                    *)
ErrorSurfaced == phase = "error" /\ status # StatusEmpty /\ status[1] = "Error: "

(* C11: when the recovery id cannot be determined the signing flow ends in *)
(* a hard error: the session is not left in Done with no error shown, and  *)
(* no signature response is put on display.                                *)
C11_NoRecoveryIdIsHardError ==
    (urResult = [kind |-> "throw", message |-> MsgNoRecId]) =>
        /\ route = KeycardRoute
        /\ scanned = NotScanned
        /\ phase # "done"
        /\ ErrorSurfaced

(* The serialized v: what follows r and s under key 2 of the decoded map *)
SerializedV == Slice(scanned.map[2].bytes, 2 * SCALAR_BYTES, Len(scanned.map[2].bytes))

(* C33: for every v >= 0 the serialized v is the big-endian encoding of v  *)
(* in the minimal number of bytes (a single zero byte for 0), also when    *)
(* 35 + 2*chainId + recoveryId takes 2, 3 or 4 bytes or exceeds 32 bits.   *)
C33_SerializedVIsMinimalBigEndian ==
    (scanned # NotScanned /\ scanned.ok) => SerializedV = BigEndian(Logged("v"))

(* The content bytes of the DER integer the card returns for a scalar *)
DerContent(n) == Slice(DerInt(n), 2, Len(DerInt(n)))

(* C34: for every DER integer of the card whose value fits in 32 bytes,    *)
(* with a leading zero padding byte or shorter than 32 bytes, the          *)
(* normalized scalar has exactly 32 bytes and is the same integer,         *)
(* left-padded with zero bytes.                                            *)
C34_ScalarsNormalizedTo32Bytes ==
    (urResult # NotRun /\ cardSignature.shape = "card") =>
        /\ Len(Logged("r")) = SCALAR_BYTES
        /\ Len(Logged("s")) = SCALAR_BYTES
        /\ StripZeros(Logged("r")) = StripZeros(DerContent(cardSignature.r))
        /\ StripZeros(Logged("s")) = StripZeros(DerContent(cardSignature.s))

(* The card returned r in 31 bytes and s in 33 bytes, with a padding byte *)
C34_Witness ==
    /\ urResult.kind = "return"
    /\ cardSignature.shape = "card"
    /\ Len(DerContent(cardSignature.r)) = SCALAR_BYTES - 1
    /\ Len(DerContent(cardSignature.s)) = SCALAR_BYTES + 1
    /\ DerContent(cardSignature.s)[1] = 0
    /\ Logged("r")[1] = 0
    /\ Logged("s")[1] = 255

-----------------------------------------------------------------------------
(* Claims about the UR parser *)

Parsed == scanResult # NotParsed

IsRequest == urType = "eth-sign-request"

(* CBOR.decode returned a map *)
DecodedMap == ~cborDecoded.threw /\ cborDecoded.value.t = "object"

Given(name) == name \in DOMAIN cborDecoded.value.v

(* The map under key 5 that holds the components: itself, or the value of  *)
(* the tagged item                                                         *)
GivenPathMap ==
    LET five == cborDecoded.value.v["5"]
    IN  IF five.t = "object" /\ "value" \in DOMAIN five.v THEN five.v["value"] ELSE five

HasComponents ==
    /\ DecodedMap /\ Given("5")
    /\ GivenPathMap.t = "object"
    /\ "1" \in DOMAIN GivenPathMap.v
    /\ GivenPathMap.v["1"].t = "array"

GivenComponents == GivenPathMap.v["1"].v

(* Key 5 holds a present property named get that cannot be called *)
GetNotCallable ==
    /\ DecodedMap /\ Given("5")
    /\ GivenPathMap.t = "object"
    /\ "get" \in DOMAIN GivenPathMap.v

(* C25: handleUR never throws; another type than 'eth-sign-request' gives  *)
(* {kind: 'unsupported', type}; a failure while decoding gives             *)
(* {kind: 'error'} with the message 'Failed to parse sign request: ' and   *)
(* the cause; everything else gives {kind: 'eth-sign-request', request}.   *)
C25_HandleURNeverThrows ==
    Parsed =>
        /\ scanResult.kind \in {"unsupported", "error", "eth-sign-request"}
        /\ ~IsRequest => scanResult = [kind |-> "unsupported", type |-> urType]
        /\ (IsRequest /\ cborDecoded.threw) =>
              scanResult = [kind |-> "error",
                            message |-> <<"Failed to parse sign request: ",
                                          cborDecoded.message>>]
        /\ (IsRequest /\ ~cborDecoded.threw
              /\ (Nullish(cborDecoded.value) \/ GetNotCallable)) =>
              /\ scanResult.kind = "error"
              /\ scanResult.message[1] = "Failed to parse sign request: "
              /\ scanResult.message[2] \in {MsgReadOfNull, MsgReadOfUndefined,
                                            MsgGetNotFunction}
        /\ (IsRequest /\ ~cborDecoded.threw
              /\ ~Nullish(cborDecoded.value) /\ ~GetNotCallable) =>
              /\ scanResult.kind = "eth-sign-request"
              /\ DOMAIN scanResult = {"kind", "request"}

(* CBOR.decode threw on an 'eth-sign-request' and handleUR returned the    *)
(* error result                                                            *)
C25_Witness ==
    /\ IsRequest /\ cborDecoded.threw
    /\ scanResult.kind = "error"

RECURSIVE SplitOn(_, _)
SplitOn(chars, separator) ==
    IF \A i \in 1..Len(chars) : chars[i] # separator THEN <<chars>>
    ELSE LET at == CHOOSE i \in 1..Len(chars) :
                      /\ chars[i] = separator
                      /\ \A j \in 1..(i - 1) : chars[j] # separator
         IN  <<SubSeq(chars, 1, at - 1)>>
             \o SplitOn(SubSeq(chars, at + 1, Len(chars)), separator)

IsDigit(c) == \E i \in 1..10 : DecimalDigits[i] = c

RECURSIVE DecimalValue(_)
DecimalValue(digits) ==
    IF digits = <<>> THEN 0
    ELSE 10 * DecimalValue(SubSeq(digits, 1, Len(digits) - 1))
         + (CHOOSE i \in 0..9 : DecimalDigits[i + 1] = digits[Len(digits)])

HasApostrophe(segment) == segment # <<>> /\ segment[Len(segment)] = "'"

WithoutApostrophe(segment) ==
    IF HasApostrophe(segment) THEN SubSeq(segment, 1, Len(segment) - 1) ELSE segment

(* The k-th segment renders the k-th (index, hardenedFlag) pair *)
SegmentRenders(segment, index, hardened) ==
    /\ WithoutApostrophe(segment) # <<>>
    /\ \A i \in 1..Len(WithoutApostrophe(segment)) : IsDigit(WithoutApostrophe(segment)[i])
    /\ DecimalValue(WithoutApostrophe(segment)) = index.n
    /\ HasApostrophe(segment) <=> Truthy(hardened)

Segments == SplitOn(scanResult.request.derivationPath, "/")

(* C26: a component sequence of 2n (n >= 1) elements, (index, hardened)    *)
(* pairs, is rendered as 'm/' and n segments joined by '/', in input       *)
(* order; the k-th segment is the k-th index, with an apostrophe exactly   *)
(* when the k-th flag is truthy.                                           *)
C26_PathRendering ==
    (Parsed /\ IsRequest /\ HasComponents
       /\ Len(GivenComponents) >= 2 /\ Len(GivenComponents) % 2 = 0) =>
        /\ scanResult.kind = "eth-sign-request"
        /\ Len(Segments) = (Len(GivenComponents) \div 2) + 1
        /\ Segments[1] = <<"m">>
        /\ \A k \in 1..(Len(GivenComponents) \div 2) :
              SegmentRenders(Segments[k + 1], GivenComponents[2 * k - 1],
                             GivenComponents[2 * k])

(* The standard Ethereum path: m/44'/60'/0'/0 *)
C26_Witness ==
    /\ Parsed /\ IsRequest /\ HasComponents
    /\ Len(GivenComponents) = 8
    /\ scanResult.request.derivationPath =
          <<"m", "/", "4", "4", "'", "/", "6", "0", "'", "/", "0", "'", "/", "0">>

(* The derivation-path field deviates from map {1: [pairs]} *)
StructuralDeviation ==
    \/ ~Given("5")
    \/ GivenPathMap.t # "object"
    \/ "1" \notin DOMAIN GivenPathMap.v
    \/ GivenPathMap.v["1"].t # "array"
    \/ GivenComponents = <<>>
    \/ Len(GivenComponents) % 2 = 1

(* C27: every structural deviation of the derivation-path field decodes to *)
(* the path 'unknown' and never makes the decode fail.                     *)
C27_DeviationIsUnknown ==
    (Parsed /\ IsRequest /\ DecodedMap /\ StructuralDeviation) =>
        /\ scanResult.kind = "eth-sign-request"
        /\ scanResult.request.derivationPath = <<"u", "n", "k", "n", "o", "w", "n">>

(* C28: a map with only keys 2 and 3 decodes to a request with the         *)
(* lowercase hex of the payload, the given data type, the path 'unknown'   *)
(* and no requestId, chainId, address or origin; the absence of keys 1, 4, *)
(* 5, 6, 7 never fails the decode.                                         *)
C28_MinimalRequest ==
    (Parsed /\ IsRequest /\ DecodedMap
       /\ Given("2") /\ Given("3")
       /\ cborDecoded.value.v["3"] \in {JsNumber(1), JsNumber(2), JsNumber(3), JsNumber(4)}) =>
        /\ scanResult.kind = "error" => Given("5")
        /\ scanResult.kind = "eth-sign-request" =>
              /\ scanResult.request.signData =
                    JsString(<<"d", "e", "a", "d", "b", "e", "e", "f">>)
              /\ scanResult.request.dataType = cborDecoded.value.v["3"]
              /\ ~Given("1") => scanResult.request.requestId = JsUndefined
              /\ ~Given("4") => scanResult.request.chainId = JsUndefined
              /\ ~Given("5") => scanResult.request.derivationPath =
                                   <<"u", "n", "k", "n", "o", "w", "n">>
              /\ ~Given("6") => scanResult.request.address = JsUndefined
              /\ ~Given("7") => scanResult.request.origin = JsUndefined

(* The map with only keys 2 and 3 was decoded *)
C28_Witness ==
    /\ Parsed /\ IsRequest /\ DecodedMap
    /\ DOMAIN cborDecoded.value.v = {"2", "3"}
    /\ cborDecoded.value.v["3"] = JsNumber(4)
    /\ scanResult.kind = "eth-sign-request"

(* C29: the decoded dataType is always one of 1, 2, 3, 4; a missing key 3, *)
(* a non-integer and an integer outside 1..4 decode to 1.                  *)
C29_DataTypeInRange ==
    (Parsed /\ scanResult.kind = "eth-sign-request") =>
        /\ scanResult.request.dataType \in
              {JsNumber(1), JsNumber(2), JsNumber(3), JsNumber(4)}
        /\ (DecodedMap /\ Given("3")
              /\ cborDecoded.value.v["3"] \notin
                    {JsNumber(1), JsNumber(2), JsNumber(3), JsNumber(4)}) =>
              scanResult.request.dataType = JsNumber(1)
        /\ (DecodedMap /\ ~Given("3")) => scanResult.request.dataType = JsNumber(1)

-----------------------------------------------------------------------------
(* Claims about the QR scanner *)

ScanStep == lastScan'.kind = "scan"

(* The decoder after it received the part of the scan event *)
DecoderAfter ==
    ReceivePart(IF decoderRef = Undefined THEN NewURDecoder ELSE decoderRef[1],
                lastScan'.value)

(* The scanned string carries the scheme prefix, in whatever letter case *)
Prefixed(value) ==
    /\ Len(value.head) >= 3
    /\ value.head[1] \in {"u", "U"}
    /\ value.head[2] \in {"r", "R"}
    /\ value.head[3] = ":"

(* The scan event is not ignored and the decoder then reports completion *)
Completes ==
    /\ ScanStep /\ ~scannedRef
    /\ Prefixed(lastScan'.value)
    /\ IsComplete(DecoderAfter)

(* The result the screen navigates with *)
CompletedResult ==
    IF DecoderAfter.ur = "corrupt" THEN [kind |-> "error", message |-> "bad checksum"]
    ELSE HandleUR(URTypeOf(DecoderAfter.ur), CborOf(DecoderAfter.ur))

(* C30: once the decoder reports completion the scanner navigates to       *)
(* TransactionDetail exactly once, with handleUR's result or with the      *)
(* decoder's error, discards the decoder, and ignores every later scan     *)
(* event until the screen regains focus; then a new scan session can       *)
(* complete again.                                                         *)
C30_NavigatesOncePerSession ==
    [][/\ Completes =>
            /\ navigations' = Append(navigations,
                  [name |-> "TransactionDetail",
                   params |-> [result |-> CompletedResult]])
            /\ decoderRef' = Undefined
            /\ scannedRef'
       /\ ~Completes => navigations' = navigations
       /\ (scannedRef /\ ScanStep) =>
            UNCHANGED <<scannedRef, decoderRef, navigations, progress, frameInfo>>
       /\ (scannedRef /\ ~scannedRef') => lastScan'.kind = "focus"
       /\ lastScan'.kind = "focus" => (~scannedRef' /\ decoderRef' = Undefined)]_vars

(* A scan session failed, the screen regained focus, a second session      *)
(* completed with a request, and a later scan of another UR was ignored    *)
C30_Witness ==
    /\ Len(navigations) = 2
    /\ navigations[1].params.result.kind = "error"
    /\ navigations[2].params.result.kind = "eth-sign-request"
    /\ scannedRef /\ decoderRef = Undefined
    /\ lastScan.kind = "scan" /\ lastScan.value.ur = "psbt"

(* C31: a scanned string that is empty or does not start with 'UR:',       *)
(* compared case-insensitively, is never handed to the decoder and changes *)
(* no scanner state; a string with the prefix in any letter case is handed *)
(* to the decoder as it was scanned.                                       *)
C31_OnlyURsReachTheDecoder ==
    [][ScanStep =>
        /\ ~Prefixed(lastScan'.value) =>
              UNCHANGED <<scannedRef, decoderRef, progress, frameInfo,
                          navigations, focused>>
        /\ (Prefixed(lastScan'.value) /\ ~scannedRef) =>
              IF decoderRef' = Undefined
              THEN Len(navigations') = Len(navigations) + 1
              ELSE decoderRef'[1].last = lastScan'.value]_vars

(* A part scanned with a lower-case prefix is in the decoder as scanned,   *)
(* after a scan without the prefix was ignored                             *)
C31_Witness ==
    /\ lastScan.kind = "scan" /\ lastScan.value.ur = "none"
    /\ decoderRef # Undefined
    /\ decoderRef[1].last.head = <<"u", "r", ":">>
    /\ decoderRef[1].received = {1}

-----------------------------------------------------------------------------
(* Claims about the Keycard screen *)

(* A key is pressed: while the pad is shown nothing else happens *)
KeyStep == params # Undefined /\ params' = params /\ phase = "pin_entry"

(* submitPin is called in this step *)
Submits == Len(startPending') = Len(startPending) + 1

IsDigitKey(key) == key \notin {"", "backspace", "none"}

(* C32: submitPin is called exactly at the key press that brings the       *)
(* entered digits to 6, with those 6 digits in entry order, and the pad is *)
(* then left; it is never called with fewer digits; backspace removes the  *)
(* last entered digit; the digit buffer never exceeds 6 digits and is      *)
(* empty after the submission.                                             *)
C32_PinPad ==
    [][/\ Len(padPin') <= 6
       /\ pinRef' # pinRef => (pinRef' = "" \/ Len(pinRef') = 6)
       /\ KeyStep =>
            /\ lastKey' = "" => (UNCHANGED padPin /\ ~Submits)
            /\ lastKey' = "backspace" =>
                  /\ ~Submits
                  /\ Len(padPin') = (IF padPin = <<>> THEN 0 ELSE Len(padPin) - 1)
                  /\ \A i \in 1..Len(padPin') : padPin'[i] = padPin[i]
            /\ (IsDigitKey(lastKey') /\ Len(padPin) < 5) =>
                  (padPin' = padPin \o <<lastKey'>> /\ ~Submits)
            /\ (IsDigitKey(lastKey') /\ Len(padPin) = 5) =>
                  /\ Submits
                  /\ event' = [call |-> "submitPin",
                               pin |-> padPin[1] \o padPin[2] \o padPin[3]
                                       \o padPin[4] \o padPin[5] \o lastKey']
                  /\ pinRef' = event'.pin
                  /\ padPin' = <<>>
                  /\ phase' = "nfc"
            /\ ~Submits => UNCHANGED <<pinRef, phase, event>>]_vars

(* The card's PIN was submitted at the press of its sixth digit *)
C32_Witness ==
    /\ event = [call |-> "submitPin", pin |-> "123456"]
    /\ pinRef = "123456"
    /\ padPin = <<>>
    /\ lastKey = "6"
    /\ phase = "nfc"

(* The bytes that signData spells *)
SignDataBytes ==
    CHOOSE data \in {<<170, 187, 204, 221>>, Fill(171, 32)} :
        ToHex(data) = params[1].signData

(* The hash the request calls for: the digest for dataType 1 and 4, the    *)
(* payload itself otherwise                                                *)
ExpectedHash ==
    IF params[1].dataType \in {<<1>>, <<4>>} THEN Keccak_256(SignDataBytes)
    ELSE SignDataBytes

(* C40: the hash the closure sends to the card is the hash later given to  *)
(* the assembler: the Keccak-256 digest of signData for dataType 1 and 4,  *)
(* signData itself for every other or absent dataType; the assembler is    *)
(* run only in phase Done with a stored result.                            *)
C40_SameHashSignedAndAssembled ==
    [][/\ \A h \in Handlers : Invokes(h) => closureHash = ExpectedHash
       /\ urResult' # urResult =>
            /\ phase = "done" /\ result # NoResult
            /\ args'.hash = closureHash
            /\ args'.hash = ExpectedHash
            /\ \E h \in Handlers : hpc[h] = "done"]_vars

(* A typed transaction was signed and assembled with the digest *)
C40_Witness ==
    /\ urResult.kind = "return"
    /\ params # Undefined
    /\ params[1].dataType = <<4>>
    /\ params[1].signData = <<"a", "a", "b", "b", "c", "c", "d", "d">>
    /\ args.hash[1] = 64 /\ Len(args.hash) = 32
    /\ closureHash = args.hash

====
